---- MODULE Spec2Model ----
(***************************************************************************)
(* VivaSmart backend: the entitlement and access-control engine.           *)
(*                                                                         *)
(* The model follows the v4.0 revision (src/unnamed/part_002, lines 1 to   *)
(* 398).  Every request handler is an async function over a shared remote  *)
(* store: each `await supabase...` is one atomic store operation, and      *)
(* handlers of different requests interleave between their awaits.  A      *)
(* handler is therefore a small process: its position (pc) and the values  *)
(* it holds in local variables (its snapshot of a row) are state.          *)
(*                                                                         *)
(* Time is counted in days.  A nullable column is NULL (the empty tuple)   *)
(* or <<v>>.                                                               *)
(***************************************************************************)
EXTENDS Integers, Sequences, FiniteSets

VARIABLES
  users,        \* table users: id -> row
  analyses,     \* table analyses: number of rows per user_id
  coupons,      \* table coupons: id -> row
  redemptions,  \* table coupon_redemptions: number of rows per <<coupon_id, user_id>>
  payments,     \* table payments: id -> row
  now,          \* the wall clock (new Date()), in days
  ticks,        \* how many times the clock has advanced
  an,           \* POST /api/analyze requests
  ad,           \* the PUT /api/admin/users/:id request
  rd,           \* POST /api/coupons/redeem requests
  tg,           \* the PUT /api/admin/coupons/:id/toggle request
  vf,           \* POST /api/admin/payments/:id/verify requests
  sb,           \* POST /api/payments/submit requests
  st            \* requests that read a user for display: status, login, admin detail

vars == <<users, analyses, coupons, redemptions, payments, now, ticks, an, ad, rd, tg, vf, sb, st>>

-----------------------------------------------------------------------------
(* Program constants *)

FREE_TRIALS == 3

DAYS_30 == 30

(* Bounds of the model *)

MaxTicks == 2

MaxTotal == 4

MaxAnalyses == 2
MaxPayments == 2

MaxRedeems == 3

-----------------------------------------------------------------------------
(* Values *)

NULL == <<>>

Some(v) == <<v>>

IsSet(x) == x # NULL

Val(x) == x[1]

Max(a, b) == IF a >= b THEN a ELSE b

Users == {"u1", "u2"}

AnReqs == {"a1", "a2"}

TickDays == {1, DAYS_30}

GeminiResults == {"ok", "not_ok", "empty", "unparsable"}

AdminActions ==
  {"grant_monthly", "grant_one_time", "add_trials", "set_trials", "reset_used", "revoke_all"}

(* a numeric request field: missing / non-numeric (NULL) or an integer *)
NumInputs == {NULL, Some(0), Some(-1), Some(1), Some(2)}

-----------------------------------------------------------------------------
(* Helpers of the source *)

(* parseInt(x) || d : NaN and 0 are falsy *)
ParseIntOr(x, d) == IF x = NULL \/ Val(x) = 0 THEN d ELSE Val(x)

(* u.trials_total || FREE_TRIALS *)
TotalOrDefault(t) == IF t = 0 THEN FREE_TRIALS ELSE t

(* Expired with the instant of expiry counted as past *)
ExpiredInclusive(u, t) ==
  u.subscribed /\ u.sub_plan = "monthly" /\ IsSet(u.sub_expires) /\ Val(u.sub_expires) <= t

(* the condition of refreshUser: an expired monthly subscription *)
Expired(u, t) ==
  u.subscribed /\ u.sub_plan = "monthly" /\ IsSet(u.sub_expires) /\ Val(u.sub_expires) < t

(* ClearSub writing the flag alone *)
ClearSubFlagOnly(u) == [u EXCEPT !.subscribed = FALSE]

(* the fields refreshUser writes, on a row or on the snapshot *)
ClearSub(u) == [u EXCEPT !.subscribed = FALSE, !.sub_plan = "null", !.sub_expires = NULL]

(* the guard both the pre-check and the consume step use *)
Metered(u) == u.role # "admin" /\ ~u.subscribed

(* the pre-analysis check: TRUE when the request goes on to the Analyzer *)
PreCheckAllows(ur) ==
  ~(Metered(ur) /\ ur.trials_used >= TotalOrDefault(ur.trials_total))

(* formatUser with trials_total as stored, without the default *)
FormatUserStoredTotal(u) ==
  [role |-> u.role, trials_used |-> u.trials_used, trials_total |-> u.trials_total,
   trials_left |-> Max(0, u.trials_total - u.trials_used),
   subscribed |-> u.subscribed, sub_plan |-> u.sub_plan, sub_expires |-> u.sub_expires]

(* formatUser: the user of the login and status responses; trials_used || 0
   is trials_used on an integer *)
FormatUser(u) ==
  [role |-> u.role, trials_used |-> u.trials_used,
   trials_total |-> TotalOrDefault(u.trials_total),
   trials_left |-> Max(0, TotalOrDefault(u.trials_total) - u.trials_used),
   subscribed |-> u.subscribed, sub_plan |-> u.sub_plan, sub_expires |-> u.sub_expires]

-----------------------------------------------------------------------------
(* The clock *)

Tick ==
  /\ ticks < MaxTicks
  /\ \E d \in TickDays : now' = now + d
  /\ ticks' = ticks + 1
  /\ UNCHANGED <<users, analyses, coupons, redemptions, payments, an, ad, rd, tg, vf, sb, st>>

-----------------------------------------------------------------------------
(* POST /api/analyze *)

NoRow ==
  [role |-> "student", trials_total |-> 0, trials_used |-> 0,
   subscribed |-> FALSE, sub_plan |-> "null", sub_expires |-> NULL]

IdleAn == [pc |-> "idle", user |-> "none", ur |-> NoRow, out |-> "none", charged |-> 0]

(* what the handler still reads of ur after the pre-check: role, subscribed
   and trials_used (lines 170-171); the other fields are dropped *)
Kept(ur) == [NoRow EXCEPT !.role = ur.role, !.subscribed = ur.subscribed,
                          !.trials_used = ur.trials_used]

(* the handler after refreshUser returned ur: the pre-check *)
AfterRefresh(r, u, ur) ==
  IF PreCheckAllows(ur)
    THEN an' = [an EXCEPT ![r] = [pc |-> "gemini", user |-> u, ur |-> Kept(ur),
                                  out |-> "none", charged |-> 0]]
    ELSE an' = [an EXCEPT ![r] = [pc |-> "idle", user |-> u, ur |-> NoRow,
                                  out |-> "TRIAL_LIMIT", charged |-> 0]]

(* refreshUser: the select *)
AnalyzeRead(r, u) ==
  /\ an[r].pc = "idle"
  /\ IF Expired(users[u], now)
       THEN an' = [an EXCEPT ![r] = [pc |-> "normalize", user |-> u, ur |-> users[u],
                                     out |-> "none", charged |-> 0]]
       ELSE AfterRefresh(r, u, users[u])
  /\ UNCHANGED <<users, analyses, coupons, redemptions, payments, now, ticks, ad, rd, tg, vf, sb, st>>

(* lines 143-146: a request without userId makes no store call, and one whose
   userId matches no row gets null from refreshUser; either way ur is null,
   the pre-check is skipped and the handler goes on to the Analyzer *)
AnalyzeReadNoUser(r) ==
  /\ an[r].pc = "idle"
  /\ an' = [an EXCEPT ![r] = [pc |-> "gemini", user |-> "none", ur |-> NoRow,
                              out |-> "none", charged |-> 0]]
  /\ UNCHANGED <<users, analyses, coupons, redemptions, payments, now, ticks, ad, rd, tg, vf, sb, st>>

(* AnalyzeNormalize writing the update of revoke_all, which also resets the
   quota *)
AnalyzeNormalizeRevokes(r) ==
  /\ an[r].pc = "normalize"
  /\ users' = [users EXCEPT ![an[r].user] =
                 [ClearSub(@) EXCEPT !.trials_total = FREE_TRIALS, !.trials_used = 0]]
  /\ AfterRefresh(r, an[r].user, ClearSub(an[r].ur))
  /\ UNCHANGED <<analyses, coupons, redemptions, payments, now, ticks, ad, rd, tg, vf, sb, st>>

(* refreshUser: the update that clears an expired subscription *)
AnalyzeNormalize(r) ==
  /\ an[r].pc = "normalize"
  /\ users' = [users EXCEPT ![an[r].user] = ClearSub(@)]
  /\ AfterRefresh(r, an[r].user, ClearSub(an[r].ur))
  /\ UNCHANGED <<analyses, coupons, redemptions, payments, now, ticks, ad, rd, tg, vf, sb, st>>

(* AnalyzeGemini with the consume step taken whatever the Analyzer answered *)
AnalyzeGeminiChargesFailure(r) ==
  /\ an[r].pc = "gemini"
  /\ \E res \in GeminiResults :
       an' = [an EXCEPT ![r].pc = IF Metered(an[r].ur) THEN "commit" ELSE "log",
                        ![r].out = IF res # "ok" THEN "UPSTREAM" ELSE "none"]
  /\ UNCHANGED <<users, analyses, coupons, redemptions, payments, now, ticks, ad, rd, tg, vf, sb, st>>

(* the Analyzer call: fetch, gr.ok, rawText, parseGeminiJSON; a failure answers
   502 (or 500 from the catch) and ends the handler; so does a success of a
   request without a user row (line 169), with the result *)
AnalyzeGemini(r) ==
  /\ an[r].pc = "gemini"
  /\ \E res \in GeminiResults :
       an' = [an EXCEPT ![r].pc = IF res # "ok" \/ an[r].user = "none" THEN "idle"
                                  ELSE IF Metered(an[r].ur) THEN "commit" ELSE "log",
                        ![r].ur = IF res # "ok" THEN NoRow ELSE @,
                        ![r].out = IF res # "ok" THEN "UPSTREAM"
                                   ELSE IF an[r].user = "none" THEN "ok" ELSE "none"]
  /\ UNCHANGED <<users, analyses, coupons, redemptions, payments, now, ticks, ad, rd, tg, vf, sb, st>>

(* the value the consume step writes to trials_used *)
ConsumedTrials(ur) == ur.trials_used + 1

(* the consume step: update({ trials_used: ur.trials_used+1 }) *)
AnalyzeCommit(r) ==
  /\ an[r].pc = "commit"
  /\ users' = [users EXCEPT ![an[r].user].trials_used = ConsumedTrials(an[r].ur)]
  /\ an' = [an EXCEPT ![r].pc = "log", ![r].charged = @ + 1]
  /\ UNCHANGED <<analyses, coupons, redemptions, payments, now, ticks, ad, rd, tg, vf, sb, st>>

(* the insert into analyses, and the response *)
AnalyzeLog(r) ==
  /\ an[r].pc = "log"
  /\ analyses' = [analyses EXCEPT ![an[r].user] = @ + 1]
  /\ an' = [an EXCEPT ![r].pc = "idle", ![r].ur = NoRow, ![r].out = "ok"]
  /\ UNCHANGED <<users, coupons, redemptions, payments, now, ticks, ad, rd, tg, vf, sb, st>>

-----------------------------------------------------------------------------
(* PUT /api/admin/users/:id *)

IdleAd == [pc |-> "idle", user |-> "none", action |-> "none", n |-> NULL, ur |-> NoRow]

(* the request fields an action reads: daysToGrant, trialsToAdd, trialsTotal *)
InputsFor(action) ==
  CASE action = "grant_monthly" -> {NULL, Some(0), Some(-1), Some(1)}
    [] action = "add_trials"    -> NumInputs
    [] action = "set_trials"    -> NumInputs
    [] OTHER                    -> {NULL}

(* row with the `updates` object of the action written over it; u is the row
   refreshUser returned, t the time of the call *)
ApplyAdmin(row, action, n, u, t) ==
  CASE action = "grant_monthly" ->
         [row EXCEPT !.subscribed = TRUE, !.sub_plan = "monthly",
                     !.sub_expires = Some(t + Max(1, ParseIntOr(n, DAYS_30)))]
    [] action = "grant_one_time" ->
         [row EXCEPT !.subscribed = TRUE, !.sub_plan = "one_time", !.sub_expires = NULL]
    [] action = "add_trials" ->
         [row EXCEPT !.trials_total = TotalOrDefault(u.trials_total) + Max(1, ParseIntOr(n, 1))]
    [] action = "set_trials" ->
         [row EXCEPT !.trials_total = Max(0, ParseIntOr(n, FREE_TRIALS)), !.trials_used = 0]
    [] action = "reset_used" ->
         [row EXCEPT !.trials_used = 0]
    [] action = "revoke_all" ->
         [row EXCEPT !.subscribed = FALSE, !.sub_plan = "null", !.sub_expires = NULL,
                     !.trials_total = FREE_TRIALS, !.trials_used = 0]

(* refreshUser: the select *)
AdminRead(u, action, n) ==
  /\ ad.pc = "idle"
  /\ n \in InputsFor(action)
  /\ ApplyAdmin(users[u], action, n, users[u], now).trials_total <= MaxTotal
  /\ ad' = [pc |-> IF Expired(users[u], now) THEN "normalize" ELSE "write",
            user |-> u, action |-> action, n |-> n, ur |-> users[u]]
  /\ UNCHANGED <<users, analyses, coupons, redemptions, payments, now, ticks, an, rd, tg, vf, sb, st>>

(* refreshUser: the update that clears an expired subscription *)
AdminNormalize ==
  /\ ad.pc = "normalize"
  /\ users' = [users EXCEPT ![ad.user] = ClearSub(@)]
  /\ ad' = [ad EXCEPT !.pc = "write", !.ur = ClearSub(@)]
  /\ UNCHANGED <<analyses, coupons, redemptions, payments, now, ticks, an, rd, tg, vf, sb, st>>

(* update(updates).eq('id', ...) *)
AdminWrite ==
  /\ ad.pc = "write"
  /\ users' = [users EXCEPT ![ad.user] = ApplyAdmin(@, ad.action, ad.n, ad.ur, now)]
  /\ ad' = [ad EXCEPT !.pc = "refresh", !.action = "none", !.n = NULL, !.ur = NoRow]
  /\ UNCHANGED <<analyses, coupons, redemptions, payments, now, ticks, an, rd, tg, vf, sb, st>>

(* the second refreshUser, for the response: the select *)
AdminRefresh ==
  /\ ad.pc = "refresh"
  /\ ad' = IF Expired(users[ad.user], now) THEN [ad EXCEPT !.pc = "normalize2"] ELSE IdleAd
  /\ UNCHANGED <<users, analyses, coupons, redemptions, payments, now, ticks, an, rd, tg, vf, sb, st>>

(* the second refreshUser: the update *)
AdminNormalize2 ==
  /\ ad.pc = "normalize2"
  /\ users' = [users EXCEPT ![ad.user] = ClearSub(@)]
  /\ ad' = IdleAd
  /\ UNCHANGED <<analyses, coupons, redemptions, payments, now, ticks, an, rd, tg, vf, sb, st>>

-----------------------------------------------------------------------------
(* GET /api/users/:id/status *)

StReqs == {"s1", "s2"}

IdleSt == [pc |-> "idle", user |-> "none", ur |-> NoRow]

(* refreshUser as one call with nothing in between: the row it leaves in the
   store, which is the snapshot it returns *)
RefreshResult(row, t) == IF Expired(row, t) THEN ClearSub(row) ELSE row

(* refreshUser: the select; a row that needs no clearing is returned as the
   response (ur) at once *)
StatusRead(s, u) ==
  /\ st[s].pc = "idle"
  /\ st' = [st EXCEPT ![s] = [pc |-> IF Expired(users[u], now) THEN "normalize" ELSE "idle",
                              user |-> u, ur |-> users[u]]]
  /\ UNCHANGED <<users, analyses, coupons, redemptions, payments, now, ticks, an, ad, rd, tg, vf, sb>>

(* StatusNormalize that returns the snapshot as it was read *)
StatusNormalizeStaleSnapshot(s) ==
  /\ st[s].pc = "normalize"
  /\ users' = [users EXCEPT ![st[s].user] = ClearSub(@)]
  /\ st' = [st EXCEPT ![s].pc = "idle"]
  /\ UNCHANGED <<analyses, coupons, redemptions, payments, now, ticks, an, ad, rd, tg, vf, sb>>

(* refreshUser: the update, the same fields set on the snapshot, and the
   response *)
StatusNormalize(s) ==
  /\ st[s].pc = "normalize"
  /\ users' = [users EXCEPT ![st[s].user] = ClearSub(@)]
  /\ st' = [st EXCEPT ![s].pc = "idle", ![s].ur = ClearSub(@)]
  /\ UNCHANGED <<analyses, coupons, redemptions, payments, now, ticks, an, ad, rd, tg, vf, sb>>

-----------------------------------------------------------------------------
(* POST /api/auth/login of a user who has a row (lines 77-101) *)

(* line 82: the select by email *)
LoginRead(s, u) ==
  /\ st[s].pc = "idle"
  /\ st' = [st EXCEPT ![s] = [pc |-> "touch", user |-> u, ur |-> users[u]]]
  /\ UNCHANGED <<users, analyses, coupons, redemptions, payments, now, ticks, an, ad, rd, tg, vf, sb>>

(* lines 91-93: the update of last_login, which is none of the fields here;
   then the expiry check of line 96 on the row as selected; a row that needs
   no clearing is the response *)
LoginTouch(s) ==
  /\ st[s].pc = "touch"
  /\ st' = [st EXCEPT ![s].pc = IF Expired(st[s].ur, now) THEN "login_normalize" ELSE "idle"]
  /\ UNCHANGED <<users, analyses, coupons, redemptions, payments, now, ticks, an, ad, rd, tg, vf, sb>>

(* lines 97-100: the clearing update, the same fields set on the snapshot, and
   the response *)
LoginNormalize(s) ==
  /\ st[s].pc = "login_normalize"
  /\ users' = [users EXCEPT ![st[s].user] = ClearSub(@)]
  /\ st' = [st EXCEPT ![s].pc = "idle", ![s].ur = ClearSub(@)]
  /\ UNCHANGED <<analyses, coupons, redemptions, payments, now, ticks, an, ad, rd, tg, vf, sb>>

-----------------------------------------------------------------------------
(* GET /api/admin/users/:id , the admin's detail view (lines 261-271) *)

(* refreshUser: the select *)
DetailRead(s, u) ==
  /\ st[s].pc = "idle"
  /\ st' = [st EXCEPT ![s] = [pc |-> IF Expired(users[u], now) THEN "detail_normalize"
                                     ELSE "history",
                              user |-> u, ur |-> users[u]]]
  /\ UNCHANGED <<users, analyses, coupons, redemptions, payments, now, ticks, an, ad, rd, tg, vf, sb>>

(* refreshUser: the update, and the same fields set on the snapshot *)
DetailNormalize(s) ==
  /\ st[s].pc = "detail_normalize"
  /\ users' = [users EXCEPT ![st[s].user] = ClearSub(@)]
  /\ st' = [st EXCEPT ![s].pc = "history", ![s].ur = ClearSub(@)]
  /\ UNCHANGED <<analyses, coupons, redemptions, payments, now, ticks, an, ad, rd, tg, vf, sb>>

(* lines 265-269: the selects of the user's payments and analyses, and the
   response with the snapshot refreshUser returned *)
DetailHistory(s) ==
  /\ st[s].pc = "history"
  /\ st' = [st EXCEPT ![s].pc = "idle"]
  /\ UNCHANGED <<users, analyses, coupons, redemptions, payments, now, ticks, an, ad, rd, tg, vf, sb>>

-----------------------------------------------------------------------------
(* The same read paths in the v2 revision, src/server.js: the status route
   (lines 327-350) and the login of a user who has a row (lines 94-149).
   Both clear three columns in the store and one field of the snapshot. *)

(* server.js 329-339: the select, and the expiry check *)
StatusReadV2(s, u) ==
  /\ st[s].pc = "idle"
  /\ st' = [st EXCEPT ![s] = [pc |-> IF Expired(users[u], now) THEN "normalize_v2" ELSE "idle",
                              user |-> u, ur |-> users[u]]]
  /\ UNCHANGED <<users, analyses, coupons, redemptions, payments, now, ticks, an, ad, rd, tg, vf, sb>>

(* server.js 340-345: the update, user.subscribed = false, and the response *)
StatusNormalizeV2(s) ==
  /\ st[s].pc = "normalize_v2"
  /\ users' = [users EXCEPT ![st[s].user] = ClearSub(@)]
  /\ st' = [st EXCEPT ![s].pc = "idle", ![s].ur.subscribed = FALSE]
  /\ UNCHANGED <<analyses, coupons, redemptions, payments, now, ticks, an, ad, rd, tg, vf, sb>>

(* server.js 100-104: the select by email *)
LoginReadV2(s, u) ==
  /\ st[s].pc = "idle"
  /\ st' = [st EXCEPT ![s] = [pc |-> "touch_v2", user |-> u, ur |-> users[u]]]
  /\ UNCHANGED <<users, analyses, coupons, redemptions, payments, now, ticks, an, ad, rd, tg, vf, sb>>

(* server.js 121-126: the update of last_login, then the expiry check *)
LoginTouchV2(s) ==
  /\ st[s].pc = "touch_v2"
  /\ st' = [st EXCEPT ![s].pc = IF Expired(st[s].ur, now) THEN "login_normalize_v2"
                                ELSE "idle"]
  /\ UNCHANGED <<users, analyses, coupons, redemptions, payments, now, ticks, an, ad, rd, tg, vf, sb>>

(* server.js 127-144: the update, user.subscribed = false, and the response *)
LoginNormalizeV2(s) ==
  /\ st[s].pc = "login_normalize_v2"
  /\ users' = [users EXCEPT ![st[s].user] = ClearSub(@)]
  /\ st' = [st EXCEPT ![s].pc = "idle", ![s].ur.subscribed = FALSE]
  /\ UNCHANGED <<analyses, coupons, redemptions, payments, now, ticks, an, ad, rd, tg, vf, sb>>

(* server.js 534-548: POST /api/admin/users/:id/grant, one update; every
   plan but 'monthly' is taken as 'one_time' *)
GrantV2(u, plan) ==
  /\ users' = [users EXCEPT ![u] =
                 [@ EXCEPT !.subscribed = TRUE,
                           !.sub_plan = IF plan = "monthly" THEN "monthly" ELSE "one_time",
                           !.sub_expires = IF plan = "monthly" THEN Some(now + DAYS_30) ELSE NULL]]
  /\ UNCHANGED <<analyses, coupons, redemptions, payments, now, ticks, an, ad, rd, tg, vf, sb, st>>

(* server.js 552-562: POST /api/admin/users/:id/revoke, one update of the
   three subscription columns *)
RevokeV2(u) ==
  /\ users' = [users EXCEPT ![u] =
                 [@ EXCEPT !.subscribed = FALSE, !.sub_plan = "null", !.sub_expires = NULL]]
  /\ UNCHANGED <<analyses, coupons, redemptions, payments, now, ticks, an, ad, rd, tg, vf, sb, st>>

-----------------------------------------------------------------------------
(* Coupons *)

Coupons == {"c1"}

RdReqs == {"r1", "r2"}

NoCoupon ==
  [exists |-> FALSE, active |-> FALSE, max_uses |-> NULL, uses |-> 0,
   trial_grant |-> 0, plan_grant |-> "null", expiry_date |-> NULL]

(* POST /api/admin/coupons: the row the handler inserts.  active and uses are
   not in the payload: the columns' defaults, TRUE and 0. *)
NewCoupon(maxUses, trialGrant, planGrant, expiryDate) ==
  [exists |-> TRUE, active |-> TRUE,
   max_uses |-> Some(ParseIntOr(maxUses, 100)),
   uses |-> 0,
   trial_grant |-> ParseIntOr(trialGrant, 0),
   plan_grant |-> IF ParseIntOr(trialGrant, 0) > 0 THEN "trials"
                  ELSE IF planGrant \in {"one_time", "monthly"} THEN planGrant
                  ELSE "one_time",
   expiry_date |-> expiryDate]

(* the select for a duplicate code and the insert; the coupon's code is its
   identity here, so a second creation of the same code is refused *)
AdminCreateCoupon(c, maxUses, trialGrant, planGrant, expiryDate) ==
  /\ ~coupons[c].exists
  /\ coupons' = [coupons EXCEPT ![c] = NewCoupon(maxUses, trialGrant, planGrant, expiryDate)]
  /\ UNCHANGED <<users, analyses, redemptions, payments, now, ticks, an, ad, rd, tg, vf, sb, st>>

(* PUT /api/admin/coupons/:id : the sparse update; a field of f that is
   NULL is absent from the request *)
EditedCoupon(row, f) ==
  [row EXCEPT
     !.trial_grant = IF IsSet(f.trialGrant) THEN ParseIntOr(Val(f.trialGrant), 0) ELSE @,
     !.max_uses    = IF IsSet(f.maxUses) THEN Some(ParseIntOr(Val(f.maxUses), 100)) ELSE @,
     !.plan_grant  = IF IsSet(f.planGrant) THEN Val(f.planGrant) ELSE @,
     !.active      = IF IsSet(f.active) THEN Val(f.active) ELSE @,
     !.expiry_date = IF IsSet(f.expiryDate) THEN Val(f.expiryDate) ELSE @]

AdminEditCoupon(c, f) ==
  /\ coupons[c].exists
  /\ coupons' = [coupons EXCEPT ![c] = EditedCoupon(@, f)]
  /\ UNCHANGED <<users, analyses, redemptions, payments, now, ticks, an, ad, rd, tg, vf, sb, st>>

(* PUT /api/admin/coupons/:id/toggle : the select *)
IdleTg == [pc |-> "idle", coupon |-> "none", active |-> FALSE]

ToggleRead(c) ==
  /\ tg.pc = "idle"
  /\ coupons[c].exists
  /\ tg' = [pc |-> "write", coupon |-> c, active |-> coupons[c].active]
  /\ UNCHANGED <<users, analyses, coupons, redemptions, payments, now, ticks, an, ad, rd, vf, sb, st>>

(* the update({ active: !cp.active }) *)
ToggleWrite ==
  /\ tg.pc = "write"
  /\ coupons' = [coupons EXCEPT ![tg.coupon].active = ~tg.active]
  /\ tg' = IdleTg
  /\ UNCHANGED <<users, analyses, redemptions, payments, now, ticks, an, ad, rd, vf, sb, st>>

(* DELETE /api/admin/coupons/:id : one delete by id *)
AdminDeleteCoupon(c) ==
  /\ coupons[c].exists
  /\ coupons' = [coupons EXCEPT ![c] = NoCoupon]
  /\ UNCHANGED <<users, analyses, redemptions, payments, now, ticks, an, ad, rd, tg, vf, sb, st>>

-----------------------------------------------------------------------------
(* POST /api/coupons/redeem *)

IdleRd ==
  [pc |-> "idle", user |-> "none", coupon |-> "none", cp |-> NoCoupon,
   total |-> 0, out |-> "none", granted |-> 0]

(* Validate with the exhaustion check ahead of the active check *)
ValidateExhaustionFirst(cp, t) ==
  IF ~cp.exists THEN "CouponNotFound"
  ELSE IF IsSet(cp.max_uses) /\ Val(cp.max_uses) # 0 /\ cp.uses >= Val(cp.max_uses)
    THEN "CouponExhausted"
  ELSE IF ~cp.active THEN "CouponInactive"
  ELSE IF IsSet(cp.expiry_date) /\ Val(cp.expiry_date) < t THEN "CouponExpired"
  ELSE "ok"

(* Validate without the check of the expiry date *)
ValidateNoExpiry(cp, t) ==
  IF ~cp.exists THEN "CouponNotFound"
  ELSE IF ~cp.active THEN "CouponInactive"
  ELSE IF IsSet(cp.max_uses) /\ Val(cp.max_uses) # 0 /\ cp.uses >= Val(cp.max_uses)
    THEN "CouponExhausted"
  ELSE "ok"

(* the validation of lines 209-212, on the row just read; "ok" when it passes *)
Validate(cp, t) ==
  IF ~cp.exists THEN "CouponNotFound"
  ELSE IF ~cp.active THEN "CouponInactive"
  ELSE IF IsSet(cp.max_uses) /\ Val(cp.max_uses) # 0 /\ cp.uses >= Val(cp.max_uses)
    THEN "CouponExhausted"
  ELSE IF IsSet(cp.expiry_date) /\ Val(cp.expiry_date) < t THEN "CouponExpired"
  ELSE "ok"

(* the select of the coupon by its code, and the validation *)
RedeemRead(r, u, c) ==
  /\ rd[r].pc = "idle"
  /\ LET res == Validate(coupons[c], now) IN
       rd' = [rd EXCEPT ![r] =
                [IdleRd EXCEPT !.pc = IF res = "ok" THEN "check" ELSE "idle",
                               !.user = u, !.coupon = c,
                               !.cp = IF res = "ok" THEN coupons[c] ELSE NoCoupon,
                               !.out = IF res = "ok" THEN "none" ELSE res]]
  /\ UNCHANGED <<users, analyses, coupons, redemptions, payments, now, ticks, an, ad, tg, vf, sb, st>>

(* the select of a redemption row of this coupon and user *)
RedeemCheckUsed(r) ==
  /\ rd[r].pc = "check"
  /\ rd' = IF redemptions[<<rd[r].coupon, rd[r].user>>] > 0
             THEN [rd EXCEPT ![r].pc = "idle", ![r].cp = NoCoupon, ![r].out = "AlreadyRedeemed"]
             ELSE [rd EXCEPT ![r].pc = "incr"]
  /\ UNCHANGED <<users, analyses, coupons, redemptions, payments, now, ticks, an, ad, tg, vf, sb, st>>

(* the coupon row after update({ uses:newUses, active:... }) computed from
   the snapshot cp *)
UsedCoupon(row, cp) ==
  [row EXCEPT !.uses = cp.uses + 1,
              !.active = IF IsSet(cp.max_uses) /\ Val(cp.max_uses) # 0
                            /\ cp.uses + 1 >= Val(cp.max_uses)
                         THEN FALSE ELSE cp.active]

(* what the handler still reads of cp after the coupon update: trial_grant
   and plan_grant (lines 217-223) *)
KeptCoupon(cp) ==
  [NoCoupon EXCEPT !.trial_grant = cp.trial_grant, !.plan_grant = cp.plan_grant]

RedeemIncrement(r) ==
  /\ rd[r].pc = "incr"
  /\ coupons' = [coupons EXCEPT ![rd[r].coupon] = IF @.exists THEN UsedCoupon(@, rd[r].cp) ELSE @]
  /\ rd' = [rd EXCEPT ![r].pc = IF rd[r].cp.trial_grant > 0 THEN "grantread" ELSE "grant",
                      ![r].cp = KeptCoupon(@)]
  /\ UNCHANGED <<users, analyses, redemptions, payments, now, ticks, an, ad, tg, vf, sb, st>>

(* trial grant: the select of the user's trials_total *)
RedeemGrantRead(r) ==
  /\ rd[r].pc = "grantread"
  /\ rd' = [rd EXCEPT ![r].pc = "grant", ![r].total = users[rd[r].user].trials_total]
  /\ UNCHANGED <<users, analyses, coupons, redemptions, payments, now, ticks, an, ad, tg, vf, sb, st>>

(* the user row after the grant of coupon cp; total is the trials_total read
   at line 219, t the time of the call *)
CouponGrant(row, cp, total, t) ==
  IF cp.trial_grant > 0
    THEN [row EXCEPT !.trials_total = TotalOrDefault(total) + cp.trial_grant]
    ELSE [row EXCEPT !.subscribed = TRUE,
                     !.sub_plan = IF cp.plan_grant = "null" THEN "one_time" ELSE cp.plan_grant,
                     !.sub_expires = IF cp.plan_grant = "monthly" THEN Some(t + DAYS_30) ELSE NULL]

RedeemGrant(r) ==
  /\ rd[r].pc = "grant"
  /\ users' = [users EXCEPT ![rd[r].user] = CouponGrant(@, rd[r].cp, rd[r].total, now)]
  /\ rd' = [rd EXCEPT ![r].pc = "insert", ![r].total = 0, ![r].granted = @ + 1]
  /\ UNCHANGED <<analyses, coupons, redemptions, payments, now, ticks, an, ad, tg, vf, sb, st>>

(* an insert into a table that has no uniqueness constraint *)
InsertRedemptionUnconstrained(tab, c, u) ==
  [tab EXCEPT ![<<c, u>>] = @ + 1]

(* the store's insert into coupon_redemptions, under the uniqueness
   constraint on (coupon_id, user_id): a second row of a pair is refused *)
InsertRedemption(tab, c, u) ==
  IF tab[<<c, u>>] > 0 THEN tab ELSE [tab EXCEPT ![<<c, u>>] = 1]

(* the insert (its error, if any, is not looked at) and the response *)
RedeemInsert(r) ==
  /\ rd[r].pc = "insert"
  /\ redemptions' = InsertRedemption(redemptions, rd[r].coupon, rd[r].user)
  /\ rd' = [rd EXCEPT ![r].pc = "idle", ![r].cp = NoCoupon, ![r].out = "success"]
  /\ UNCHANGED <<users, analyses, coupons, payments, now, ticks, an, ad, tg, vf, sb, st>>

-----------------------------------------------------------------------------
(* POST /api/coupons/redeem when the store does not carry out a write.  The
   client answers { error } and does not throw; the handler looks at the
   error of none of its three writes (lines 216, 220-223, 225) and goes on as
   after a write that was made. *)

RedeemIncrementFails(r) ==
  /\ rd[r].pc = "incr"
  /\ rd' = [rd EXCEPT ![r].pc = IF rd[r].cp.trial_grant > 0 THEN "grantread" ELSE "grant",
                      ![r].cp = KeptCoupon(@)]
  /\ UNCHANGED <<users, analyses, coupons, redemptions, payments, now, ticks, an, ad, tg, vf, sb, st>>

RedeemGrantFails(r) ==
  /\ rd[r].pc = "grant"
  /\ rd' = [rd EXCEPT ![r].pc = "insert", ![r].total = 0]
  /\ UNCHANGED <<users, analyses, coupons, redemptions, payments, now, ticks, an, ad, tg, vf, sb, st>>

RedeemInsertFails(r) ==
  /\ rd[r].pc = "insert"
  /\ rd' = [rd EXCEPT ![r].pc = "idle", ![r].cp = NoCoupon, ![r].out = "success"]
  /\ UNCHANGED <<users, analyses, coupons, redemptions, payments, now, ticks, an, ad, tg, vf, sb, st>>

-----------------------------------------------------------------------------
(* Payments: POST /api/payments/submit and the admin's verify and reject. *)

PayIds == 1..MaxPayments
UpiRefs == {"x1", "x2"}
Plans == {"10", "99"}
VfReqs == {"v1", "v2"}
SbReqs == {"b1", "b2"}

NoPayment ==
  [exists |-> FALSE, plan |-> "none", user |-> "none", upi_ref |-> "none",
   status |-> "none", trials_granted |-> NULL]

IdleSb == [pc |-> "idle", user |-> "none", plan |-> "none", upi_ref |-> "none", out |-> "none"]

FreeIds == {p \in PayIds : ~payments[p].exists}

(* lines 187-192: the row with this upi_ref is looked up; the request is
   refused when there is one.  A request starts only while the table has an
   id left for it. *)
SubmitRead(s, u, plan, ref) ==
  /\ sb[s].pc = "idle"
  /\ Cardinality(FreeIds) > Cardinality({x \in SbReqs : sb[x].pc = "insert"})
  /\ sb' = [sb EXCEPT ![s] =
              IF \E p \in PayIds : payments[p].exists /\ payments[p].upi_ref = ref
                THEN [IdleSb EXCEPT !.upi_ref = ref, !.out = "DuplicateReference"]
                ELSE [pc |-> "insert", user |-> u, plan |-> plan, upi_ref |-> ref,
                      out |-> "none"]]
  /\ UNCHANGED <<users, analyses, coupons, redemptions, payments, now, ticks, an, ad, rd, tg, vf, st>>

(* the store's insert into payments, under the uniqueness of upi_ref the
   schema declares: a row with a reference already present is refused *)
InsertPayment(tab, row) ==
  IF \E p \in PayIds : tab[p].exists /\ tab[p].upi_ref = row.upi_ref
    THEN tab
    ELSE LET id == CHOOSE p \in PayIds :
                     ~tab[p].exists /\ \A q \in PayIds : ~tab[q].exists => p <= q
         IN  [tab EXCEPT ![id] = row]

(* lines 193-198: the payload, status pending, is inserted; an error of the
   store is answered 500 'DB error: ...' *)
SubmitInsert(s) ==
  /\ sb[s].pc = "insert"
  /\ LET row == [exists |-> TRUE, plan |-> sb[s].plan, user |-> sb[s].user,
                 upi_ref |-> sb[s].upi_ref, status |-> "pending", trials_granted |-> NULL]
     IN  /\ payments' = InsertPayment(payments, row)
         /\ sb' = [sb EXCEPT ![s] =
                     [IdleSb EXCEPT !.upi_ref = sb[s].upi_ref,
                                    !.out = IF payments' = payments THEN "DbError"
                                            ELSE "success"]]
  /\ UNCHANGED <<users, analyses, coupons, redemptions, now, ticks, an, ad, rd, tg, vf, st>>

IdleVf == [pc |-> "idle", pay |-> 0, plan |-> "none", user |-> "none", nt |-> 0, cur |-> 0, out |-> "none"]

(* line 309: Math.max(1, parseInt(trialsToGrant) || 1) *)
TrialsToGrant(n) == Max(1, ParseIntOr(n, 1))

(* the read of lines 306-309 without the check of the status *)
VerifyReadUnchecked(v, p, n) ==
  /\ vf[v].pc = "idle"
  /\ payments[p].plan = "10" => users[payments[p].user].trials_total + TrialsToGrant(n) <= MaxTotal
  /\ vf' = [vf EXCEPT ![v] =
              IF ~payments[p].exists THEN [IdleVf EXCEPT !.pay = p, !.out = "PaymentNotFound"]
              ELSE [pc |-> "mark", pay |-> p, plan |-> payments[p].plan,
                    user |-> payments[p].user, nt |-> TrialsToGrant(n), cur |-> 0, out |-> "none"]]
  /\ UNCHANGED <<users, analyses, coupons, redemptions, payments, now, ticks, an, ad, rd, tg, sb, st>>

(* lines 306-309: the payment is read; an absent one and a verified one end
   the request *)
VerifyRead(v, p, n) ==
  /\ vf[v].pc = "idle"
  /\ payments[p].plan = "10" => users[payments[p].user].trials_total + TrialsToGrant(n) <= MaxTotal
  /\ vf' = [vf EXCEPT ![v] =
              IF ~payments[p].exists THEN [IdleVf EXCEPT !.pay = p, !.out = "PaymentNotFound"]
              ELSE IF payments[p].status = "verified"
                THEN [IdleVf EXCEPT !.pay = p, !.out = "AlreadyVerified"]
              ELSE [pc |-> "mark", pay |-> p, plan |-> payments[p].plan,
                    user |-> payments[p].user, nt |-> TrialsToGrant(n), cur |-> 0, out |-> "none"]]
  /\ UNCHANGED <<users, analyses, coupons, redemptions, payments, now, ticks, an, ad, rd, tg, sb, st>>

(* line 310: the row is marked verified, whatever its status is by now *)
VerifyMark(v) ==
  /\ vf[v].pc = "mark"
  /\ payments' = [payments EXCEPT ![vf[v].pay] =
                    IF @.exists
                      THEN [@ EXCEPT !.status = "verified",
                                     !.trials_granted = IF vf[v].plan = "99" THEN NULL
                                                        ELSE Some(vf[v].nt)]
                      ELSE @]
  /\ vf' = [vf EXCEPT ![v].pc = IF vf[v].plan = "99" THEN "subscribe" ELSE "read"]
  /\ UNCHANGED <<users, analyses, coupons, redemptions, now, ticks, an, ad, rd, tg, sb, st>>

(* VerifySubscribe granting the one-time plan, which has no expiry *)
VerifySubscribeOneTime(v) ==
  /\ vf[v].pc = "subscribe"
  /\ users' = [users EXCEPT ![vf[v].user] =
                 [@ EXCEPT !.subscribed = TRUE, !.sub_plan = "one_time", !.sub_expires = NULL]]
  /\ vf' = [vf EXCEPT ![v] = [IdleVf EXCEPT !.pay = vf[v].pay, !.out = "success"]]
  /\ UNCHANGED <<analyses, coupons, redemptions, payments, now, ticks, an, ad, rd, tg, sb, st>>

(* lines 311-314: plan 99, thirty days of subscription from now *)
VerifySubscribe(v) ==
  /\ vf[v].pc = "subscribe"
  /\ users' = [users EXCEPT ![vf[v].user] =
                 [@ EXCEPT !.subscribed = TRUE, !.sub_plan = "monthly",
                           !.sub_expires = Some(now + DAYS_30)]]
  /\ vf' = [vf EXCEPT ![v] = [IdleVf EXCEPT !.pay = vf[v].pay, !.out = "success"]]
  /\ UNCHANGED <<analyses, coupons, redemptions, payments, now, ticks, an, ad, rd, tg, sb, st>>

(* lines 316-317: plan 10, the user's trials_total is read *)
VerifyGrantRead(v) ==
  /\ vf[v].pc = "read"
  /\ vf' = [vf EXCEPT ![v].pc = "grant",
                      ![v].cur = TotalOrDefault(users[vf[v].user].trials_total)]
  /\ UNCHANGED <<users, analyses, coupons, redemptions, payments, now, ticks, an, ad, rd, tg, sb, st>>

(* lines 319-320: trials_total = cur + nt is written *)
VerifyGrant(v) ==
  /\ vf[v].pc = "grant"
  /\ users' = [users EXCEPT ![vf[v].user].trials_total = vf[v].cur + vf[v].nt]
  /\ vf' = [vf EXCEPT ![v] = [IdleVf EXCEPT !.pay = vf[v].pay, !.out = "success"]]
  /\ UNCHANGED <<analyses, coupons, redemptions, payments, now, ticks, an, ad, rd, tg, sb, st>>

(* lines 313 and 320 when the store does not carry out the update of users:
   the client answers { error } and does not throw, the handler does not look
   at it and answers success *)
VerifyGrantFails(v) ==
  /\ vf[v].pc \in {"subscribe", "grant"}
  /\ vf' = [vf EXCEPT ![v] = [IdleVf EXCEPT !.pay = vf[v].pay, !.out = "success"]]
  /\ UNCHANGED <<users, analyses, coupons, redemptions, payments, now, ticks, an, ad, rd, tg, sb, st>>

(* RejectPayment taking back what a verification of the payment granted *)
RejectPaymentRevokes(p) ==
  /\ payments[p].exists
  /\ payments' = [payments EXCEPT ![p].status = "rejected"]
  /\ users' = IF payments[p].status = "verified"
                THEN [users EXCEPT ![payments[p].user] =
                        [ClearSub(@) EXCEPT !.trials_total = FREE_TRIALS]]
                ELSE users
  /\ UNCHANGED <<analyses, coupons, redemptions, now, ticks, an, ad, rd, tg, vf, sb, st>>

(* lines 327-333: the row is marked rejected, whatever its status *)
RejectPayment(p) ==
  /\ payments[p].exists
  /\ payments' = [payments EXCEPT ![p].status = "rejected"]
  /\ UNCHANGED <<users, analyses, coupons, redemptions, now, ticks, an, ad, rd, tg, vf, sb, st>>

-----------------------------------------------------------------------------
(* Initial rows *)

(* a user as POST /api/auth/login inserts it: the columns' defaults *)
NewUser(role) ==
  [role |-> role, trials_total |-> FREE_TRIALS, trials_used |-> 0,
   subscribed |-> FALSE, sub_plan |-> "null", sub_expires |-> NULL]

InitUsers ==
  users = [u \in Users |-> NewUser("student")]

InitRest ==
  /\ analyses = [u \in Users |-> 0]
  /\ coupons = [c \in Coupons |-> NoCoupon]
  /\ redemptions = [p \in Coupons \X Users |-> 0]
  /\ payments = [p \in PayIds |-> NoPayment]
  /\ now = 0
  /\ ticks = 0
  /\ an = [r \in AnReqs |-> IdleAn]
  /\ ad = IdleAd
  /\ rd = [r \in RdReqs |-> IdleRd]
  /\ tg = IdleTg
  /\ vf = [v \in VfReqs |-> IdleVf]
  /\ sb = [s \in SbReqs |-> IdleSb]
  /\ st = [s \in StReqs |-> IdleSt]

-----------------------------------------------------------------------------
(* Analyses and admin actions on users, interleaved *)

InitAnalyze ==
  /\ InitUsers
  /\ InitRest

NextAnalyze ==
  \/ \E r \in AnReqs : analyses["u1"] < MaxAnalyses /\ AnalyzeRead(r, "u1")
  \/ \E r \in AnReqs : AnalyzeGemini(r)
  \/ \E r \in AnReqs : AnalyzeCommit(r)
  \/ \E r \in AnReqs : AnalyzeLog(r)
  \/ \E a \in AdminActions : \E n \in NumInputs : AdminRead("u1", a, n)
  \/ AdminWrite
  \/ AdminRefresh

SpecAnalyze == InitAnalyze /\ [][NextAnalyze]_vars

-----------------------------------------------------------------------------
(* Analyses of one user run one after another, nothing else happening.  The
   user starts with trials_used = 0 and any trials_total set_trials can have
   written (0 for a negative trialsTotal). *)

InitSeq ==
  /\ \E T \in 0..MaxTotal :
       users = [u \in Users |-> [NewUser("student") EXCEPT !.trials_total = T]]
  /\ InitRest

NextSeq ==
  \/ Tick
  \/ AnalyzeRead("a1", "u1")
  \/ AnalyzeGemini("a1")
  \/ AnalyzeCommit("a1")
  \/ AnalyzeLog("a1")

SpecSeq == InitSeq /\ [][NextSeq]_vars

-----------------------------------------------------------------------------
(* Coupon redemptions and admin actions on coupons, interleaved *)

(* what POST and PUT /api/admin/coupons are called with *)
CreateInputs ==
  {<<mu, g, p>> : mu \in {NULL, Some(1), Some(2)}, g \in {NULL, Some(2)}, p \in {"monthly"}}

NoEdit ==
  [trialGrant |-> NULL, maxUses |-> NULL, planGrant |-> NULL, active |-> NULL, expiryDate |-> NULL]

EditInputs ==
  {[NoEdit EXCEPT !.maxUses = Some(Some(1))],
   [NoEdit EXCEPT !.active = Some(TRUE)]}

InitCoupon ==
  /\ InitUsers
  /\ InitRest

NextCoupon ==
  \/ \E i \in CreateInputs : AdminCreateCoupon("c1", i[1], i[2], i[3], NULL)
  \/ \E f \in EditInputs : AdminEditCoupon("c1", f)
  \/ ToggleRead("c1")
  \/ ToggleWrite
  \/ \E r \in RdReqs : \E u \in Users : RedeemRead(r, u, "c1")
  \/ \E r \in RdReqs : RedeemCheckUsed(r)
  \/ \E r \in RdReqs : RedeemIncrement(r)
  \/ \E r \in RdReqs : RedeemGrantRead(r)
  \/ \E r \in RdReqs : RedeemGrant(r)
  \/ \E r \in RdReqs : RedeemInsert(r)

SpecCoupon == InitCoupon /\ [][NextCoupon]_vars

-----------------------------------------------------------------------------
(* Redemptions of one coupon, nothing else happening.  The coupon is one
   POST /api/admin/coupons has created; the users have any trials_total
   set_trials can have written. *)

InitRedeem ==
  /\ \E T \in 0..MaxTotal :
       users = [u \in Users |-> [NewUser("student") EXCEPT !.trials_total = T]]
  /\ analyses = [u \in Users |-> 0]
  /\ \E i \in CreateInputs :
       coupons = [c \in Coupons |-> NewCoupon(i[1], i[2], i[3], NULL)]
  /\ redemptions = [p \in Coupons \X Users |-> 0]
  /\ payments = [p \in PayIds |-> NoPayment]
  /\ now = 0
  /\ ticks = 0
  /\ an = [r \in AnReqs |-> IdleAn]
  /\ ad = IdleAd
  /\ rd = [r \in RdReqs |-> IdleRd]
  /\ tg = IdleTg
  /\ vf = [v \in VfReqs |-> IdleVf]
  /\ sb = [s \in SbReqs |-> IdleSb]
  /\ st = [s \in StReqs |-> IdleSt]

NextRedeem ==
  \/ \E r \in RdReqs : \E u \in Users : RedeemRead(r, u, "c1")
  \/ \E r \in RdReqs : RedeemCheckUsed(r)
  \/ \E r \in RdReqs : RedeemIncrement(r)
  \/ \E r \in RdReqs : RedeemGrantRead(r)
  \/ \E r \in RdReqs : RedeemGrant(r)
  \/ \E r \in RdReqs : RedeemInsert(r)

SpecRedeem == InitRedeem /\ [][NextRedeem]_vars

-----------------------------------------------------------------------------
(* Payments submitted by u1 and the admin's verifications and rejections. *)

VerifyInputs == {NULL, Some(-1), Some(2)}

InitPayment == InitUsers /\ InitRest

NextPayment ==
  \/ \E plan \in Plans : \E ref \in UpiRefs : SubmitRead("b1", "u1", plan, ref)
  \/ SubmitInsert("b1")
  \/ \E v \in VfReqs : \E p \in PayIds : \E n \in VerifyInputs : VerifyRead(v, p, n)
  \/ \E v \in VfReqs : VerifyMark(v)
  \/ \E v \in VfReqs : VerifySubscribe(v)
  \/ \E v \in VfReqs : VerifyGrantRead(v)
  \/ \E v \in VfReqs : VerifyGrant(v)
  \/ \E p \in PayIds : RejectPayment(p)

SpecPayment == InitPayment /\ [][NextPayment]_vars

-----------------------------------------------------------------------------
(* Verifications of one pending payment of u1, with time passing.  The
   payment is one POST /api/payments/submit has inserted; u1 has any
   trials_total set_trials can have written. *)

InitVerify ==
  /\ \E T \in 0..MaxTotal :
       users = [u \in Users |-> [NewUser("student") EXCEPT !.trials_total = T]]
  /\ \E plan \in Plans :
       payments = [p \in PayIds |->
                     IF p = 1 THEN [exists |-> TRUE, plan |-> plan, user |-> "u1",
                                    upi_ref |-> "x1", status |-> "pending",
                                    trials_granted |-> NULL]
                              ELSE NoPayment]
  /\ analyses = [u \in Users |-> 0]
  /\ coupons = [c \in Coupons |-> NoCoupon]
  /\ redemptions = [p \in Coupons \X Users |-> 0]
  /\ now = 0
  /\ ticks = 0
  /\ an = [r \in AnReqs |-> IdleAn]
  /\ ad = IdleAd
  /\ rd = [r \in RdReqs |-> IdleRd]
  /\ tg = IdleTg
  /\ vf = [v \in VfReqs |-> IdleVf]
  /\ sb = [s \in SbReqs |-> IdleSb]
  /\ st = [s \in StReqs |-> IdleSt]

NextVerify ==
  \/ Tick
  \/ \E v \in VfReqs : \E n \in VerifyInputs : VerifyRead(v, 1, n)
  \/ \E v \in VfReqs : VerifyMark(v)
  \/ \E v \in VfReqs : VerifySubscribe(v)
  \/ \E v \in VfReqs : VerifyGrantRead(v)
  \/ \E v \in VfReqs : VerifyGrant(v)

SpecVerify == InitVerify /\ [][NextVerify]_vars

-----------------------------------------------------------------------------
(* Status reads of u1 while the admin grants subscriptions and time passes *)

GrantActions == {"grant_monthly", "grant_one_time"}

InitStatus == InitUsers /\ InitRest

NextStatus ==
  \/ Tick
  \/ \E s \in StReqs : StatusRead(s, "u1")
  \/ \E s \in StReqs : StatusNormalize(s)
  \/ \E a \in GrantActions : \E n \in NumInputs : AdminRead("u1", a, n)
  \/ AdminNormalize
  \/ AdminWrite
  \/ AdminRefresh
  \/ AdminNormalize2

SpecStatus == InitStatus /\ [][NextStatus]_vars

-----------------------------------------------------------------------------
(* Concurrent submissions of payments *)

InitSubmit == InitUsers /\ InitRest

NextSubmit ==
  \/ \E s \in SbReqs : \E u \in Users : \E plan \in Plans : \E ref \in UpiRefs :
       SubmitRead(s, u, plan, ref)
  \/ \E s \in SbReqs : SubmitInsert(s)

SpecSubmit == InitSubmit /\ [][NextSubmit]_vars

-----------------------------------------------------------------------------
(* Redemptions, one at a time, of a coupon with an expiry date, while time
   passes and the admin edits and toggles the coupon *)

ExpiryInputs == {NULL, Some(1), Some(DAYS_30)}

InitValidity == InitUsers /\ InitRest

NextValidity ==
  \/ Tick
  \/ \E mu \in {Some(1), Some(2)} : \E e \in ExpiryInputs :
       AdminCreateCoupon("c1", mu, NULL, "one_time", e)
  \/ \E f \in EditInputs : AdminEditCoupon("c1", f)
  \/ ToggleRead("c1")
  \/ ToggleWrite
  \/ \E u \in Users : RedeemRead("r1", u, "c1")
  \/ RedeemCheckUsed("r1")
  \/ RedeemIncrement("r1")
  \/ RedeemGrant("r1")
  \/ RedeemInsert("r1")

SpecValidity == InitValidity /\ [][NextValidity]_vars

-----------------------------------------------------------------------------
(* Analyze requests that overlap, nothing else happening: requests of u1 and
   requests that name no user.  u1 is neither admin nor subscribed and starts
   with trials_used = 0 and any trials_total set_trials can have written. *)

InitOverlap == InitSeq

NextOverlap ==
  \/ \E r \in AnReqs : analyses["u1"] < MaxAnalyses /\ AnalyzeRead(r, "u1")
  \/ \E r \in AnReqs : AnalyzeReadNoUser(r)
  \/ \E r \in AnReqs : AnalyzeGemini(r)
  \/ \E r \in AnReqs : AnalyzeCommit(r)
  \/ \E r \in AnReqs : AnalyzeLog(r)

SpecOverlap == InitOverlap /\ [][NextOverlap]_vars

-----------------------------------------------------------------------------
(* Analyze requests of u1 while a monthly subscription lapses.  u1 holds the
   subscription grant_monthly wrote at day 0, for one day or for thirty, and
   has used none or one of the free trials before. *)

InitLapse ==
  /\ \E n \in {Some(1), NULL} : \E k \in {0, 1} :
       users = [u \in Users |->
                  ApplyAdmin([NewUser("student") EXCEPT !.trials_used = k],
                             "grant_monthly", n, NewUser("student"), 0)]
  /\ InitRest

NextLapse ==
  \/ Tick
  \/ \E r \in AnReqs : analyses["u1"] < MaxAnalyses /\ AnalyzeRead(r, "u1")
  \/ \E r \in AnReqs : AnalyzeNormalize(r)
  \/ \E r \in AnReqs : AnalyzeGemini(r)
  \/ \E r \in AnReqs : AnalyzeCommit(r)
  \/ \E r \in AnReqs : AnalyzeLog(r)

SpecLapse == InitLapse /\ [][NextLapse]_vars

-----------------------------------------------------------------------------
(* Redemptions of one coupon, one request at a time, over a store whose
   writes can fail *)

InitCommit == InitRedeem

NextCommit ==
  \/ \E u \in Users :
       /\ coupons["c1"].uses < MaxRedeems /\ users[u].trials_total <= MaxTotal
       /\ RedeemRead("r1", u, "c1")
  \/ RedeemCheckUsed("r1")
  \/ RedeemIncrement("r1")
  \/ RedeemIncrementFails("r1")
  \/ RedeemGrantRead("r1")
  \/ RedeemGrant("r1")
  \/ RedeemGrantFails("r1")
  \/ RedeemInsert("r1")
  \/ RedeemInsertFails("r1")

SpecCommit == InitCommit /\ [][NextCommit]_vars

-----------------------------------------------------------------------------
(* Redemptions of one coupon by two different users, which can overlap: the
   requests of slot r1 are u1's, those of r2 are u2's *)

InitTwoUsers == InitRedeem

NextTwoUsers ==
  \/ RedeemRead("r1", "u1", "c1")
  \/ RedeemRead("r2", "u2", "c1")
  \/ \E r \in RdReqs : RedeemCheckUsed(r)
  \/ \E r \in RdReqs : RedeemIncrement(r)
  \/ \E r \in RdReqs : RedeemGrantRead(r)
  \/ \E r \in RdReqs : RedeemGrant(r)
  \/ \E r \in RdReqs : RedeemInsert(r)

SpecTwoUsers == InitTwoUsers /\ [][NextTwoUsers]_vars

-----------------------------------------------------------------------------
(* Verifications of two pending plan-10 payments of u1, which can overlap:
   slot v1 verifies payment 1 and slot v2 payment 2.  Both users start with
   the same trials_total, at least 1; u2's is never written. *)

InitTwoPayments ==
  /\ \E T \in 1..MaxTotal :
       users = [u \in Users |-> [NewUser("student") EXCEPT !.trials_total = T]]
  /\ payments = [p \in PayIds |->
                   IF p \in {1, 2}
                     THEN [exists |-> TRUE, plan |-> "10", user |-> "u1",
                           upi_ref |-> IF p = 1 THEN "x1" ELSE "x2", status |-> "pending",
                           trials_granted |-> NULL]
                     ELSE NoPayment]
  /\ analyses = [u \in Users |-> 0]
  /\ coupons = [c \in Coupons |-> NoCoupon]
  /\ redemptions = [p \in Coupons \X Users |-> 0]
  /\ now = 0
  /\ ticks = 0
  /\ an = [r \in AnReqs |-> IdleAn]
  /\ ad = IdleAd
  /\ rd = [r \in RdReqs |-> IdleRd]
  /\ tg = IdleTg
  /\ vf = [v \in VfReqs |-> IdleVf]
  /\ sb = [s \in SbReqs |-> IdleSb]
  /\ st = [s \in StReqs |-> IdleSt]

NextTwoPayments ==
  \/ \E n \in VerifyInputs : VerifyRead("v1", 1, n)
  \/ \E n \in VerifyInputs : VerifyRead("v2", 2, n)
  \/ \E v \in VfReqs : VerifyMark(v)
  \/ \E v \in VfReqs : VerifyGrantRead(v)
  \/ \E v \in VfReqs : VerifyGrant(v)

SpecTwoPayments == InitTwoPayments /\ [][NextTwoPayments]_vars

-----------------------------------------------------------------------------
(* Verifications of one pending payment of u1 over a store whose update of
   users can fail.  Both users start with the same trials_total; u2's is
   never written. *)

InitVerifyFail == InitVerify

NextVerifyFail ==
  \/ \E v \in VfReqs : \E n \in VerifyInputs : VerifyRead(v, 1, n)
  \/ \E v \in VfReqs : VerifyMark(v)
  \/ \E v \in VfReqs : VerifySubscribe(v)
  \/ \E v \in VfReqs : VerifyGrantRead(v)
  \/ \E v \in VfReqs : VerifyGrant(v)
  \/ \E v \in VfReqs : VerifyGrantFails(v)

SpecVerifyFail == InitVerifyFail /\ [][NextVerifyFail]_vars

-----------------------------------------------------------------------------
(* The paths that read u1 while a monthly subscription lapses: status,
   login, the admin's detail view, the pre-analysis check, and the
   redemption of a coupon.  u1 starts as in InitLapse; the coupon is one
   POST /api/admin/coupons created. *)

InitReadPaths ==
  /\ \E n \in {Some(1), NULL} : \E k \in {0, 1} :
       users = [u \in Users |->
                  ApplyAdmin([NewUser("student") EXCEPT !.trials_used = k],
                             "grant_monthly", n, NewUser("student"), 0)]
  /\ \E g \in {NULL, Some(1)} :
       coupons = [c \in Coupons |-> NewCoupon(Some(2), g, "one_time", NULL)]
  /\ analyses = [u \in Users |-> 0]
  /\ redemptions = [p \in Coupons \X Users |-> 0]
  /\ payments = [p \in PayIds |-> NoPayment]
  /\ now = 0
  /\ ticks = 0
  /\ an = [r \in AnReqs |-> IdleAn]
  /\ ad = IdleAd
  /\ rd = [r \in RdReqs |-> IdleRd]
  /\ tg = IdleTg
  /\ vf = [v \in VfReqs |-> IdleVf]
  /\ sb = [s \in SbReqs |-> IdleSb]
  /\ st = [s \in StReqs |-> IdleSt]

NextReadPaths ==
  \/ Tick
  \/ StatusRead("s1", "u1")
  \/ StatusNormalize("s1")
  \/ LoginRead("s1", "u1")
  \/ LoginTouch("s1")
  \/ LoginNormalize("s1")
  \/ DetailRead("s1", "u1")
  \/ DetailNormalize("s1")
  \/ DetailHistory("s1")
  \/ analyses["u1"] < MaxAnalyses /\ AnalyzeRead("a1", "u1")
  \/ AnalyzeNormalize("a1")
  \/ AnalyzeGemini("a1")
  \/ AnalyzeCommit("a1")
  \/ AnalyzeLog("a1")
  \/ RedeemRead("r1", "u1", "c1")
  \/ RedeemCheckUsed("r1")
  \/ RedeemIncrement("r1")
  \/ RedeemGrantRead("r1")
  \/ RedeemGrant("r1")
  \/ RedeemInsert("r1")

SpecReadPaths == InitReadPaths /\ [][NextReadPaths]_vars

-----------------------------------------------------------------------------
(* The status and login routes of the v2 revision, read while a monthly
   subscription lapses.  u1 holds the thirty days the v2 grant route
   (server.js 534-548) or a verified payment wrote at day 0. *)

InitReadPathsV2 ==
  /\ \E k \in {0, 1} :
       users = [u \in Users |->
                  [NewUser("student") EXCEPT !.trials_used = k, !.subscribed = TRUE,
                                             !.sub_plan = "monthly",
                                             !.sub_expires = Some(DAYS_30)]]
  /\ InitRest

NextReadPathsV2 ==
  \/ Tick
  \/ \E s \in StReqs : StatusReadV2(s, "u1")
  \/ \E s \in StReqs : StatusNormalizeV2(s)
  \/ \E s \in StReqs : LoginReadV2(s, "u1")
  \/ \E s \in StReqs : LoginTouchV2(s)
  \/ \E s \in StReqs : LoginNormalizeV2(s)

SpecReadPathsV2 == InitReadPathsV2 /\ [][NextReadPathsV2]_vars

-----------------------------------------------------------------------------
(* The life of u1's row: login, analyze, the redemption of a coupon, the
   verification of a payment and the admin's actions, one request after the
   other, with time passing; u1 has one interview analysed.  The coupon is
   one POST /api/admin/coupons created for a monthly subscription and the
   payment is a pending one for the monthly plan, so that every grant writes
   the subscription fields. *)

InitLifecycle ==
  /\ InitUsers
  /\ coupons = [c \in Coupons |-> NewCoupon(Some(2), NULL, "monthly", NULL)]
  /\ payments = [p \in PayIds |->
                     IF p = 1 THEN [exists |-> TRUE, plan |-> "99", user |-> "u1",
                                    upi_ref |-> "x1", status |-> "pending",
                                    trials_granted |-> NULL]
                              ELSE NoPayment]
  /\ analyses = [u \in Users |-> 0]
  /\ redemptions = [p \in Coupons \X Users |-> 0]
  /\ now = 0
  /\ ticks = 0
  /\ an = [r \in AnReqs |-> IdleAn]
  /\ ad = IdleAd
  /\ rd = [r \in RdReqs |-> IdleRd]
  /\ tg = IdleTg
  /\ vf = [v \in VfReqs |-> IdleVf]
  /\ sb = [s \in SbReqs |-> IdleSb]
  /\ st = [s \in StReqs |-> IdleSt]

(* the requests on u1's row that have started and not yet answered *)
InFlight ==
  {k \in {"login", "analyze", "redeem", "verify", "admin"} :
     \/ k = "login" /\ st["s1"].pc # "idle"
     \/ k = "analyze" /\ an["a1"].pc # "idle"
     \/ k = "redeem" /\ rd["r1"].pc # "idle"
     \/ k = "verify" /\ vf["v1"].pc # "idle"
     \/ k = "admin" /\ ad.pc # "idle"}

(* a request starts, and a day ends, when the earlier requests have answered *)
MayStart == InFlight = {}

NextLifecycle ==
  \/ MayStart /\ Tick
  \/ MayStart /\ LoginRead("s1", "u1")
  \/ LoginTouch("s1")
  \/ LoginNormalize("s1")
  \/ MayStart /\ analyses["u1"] = 0 /\ AnalyzeRead("a1", "u1")
  \/ AnalyzeNormalize("a1")
  \/ AnalyzeGemini("a1")
  \/ AnalyzeCommit("a1")
  \/ AnalyzeLog("a1")
  \/ MayStart /\ users["u1"].trials_total < MaxTotal /\ RedeemRead("r1", "u1", "c1")
  \/ RedeemCheckUsed("r1")
  \/ RedeemIncrement("r1")
  \/ RedeemGrant("r1")
  \/ RedeemInsert("r1")
  \/ MayStart /\ VerifyRead("v1", 1, NULL)
  \/ VerifyMark("v1")
  \/ VerifySubscribe("v1")
  \/ MayStart /\ \E a \in AdminActions : AdminRead("u1", a, NULL)
  \/ AdminNormalize
  \/ AdminWrite
  \/ AdminRefresh

SpecLifecycle == InitLifecycle /\ [][NextLifecycle]_vars

-----------------------------------------------------------------------------
(* PUT /api/admin/users/:id with every action and every value of its request
   field, on u1's row with every stored trials_total, with time passing *)

InitAdmin ==
  /\ \E T \in 0..MaxTotal : \E k \in {0, 1} :
       users = [u \in Users |->
                  [NewUser("student") EXCEPT !.trials_total = T, !.trials_used = k]]
  /\ InitRest

NextAdmin ==
  \/ Tick
  \/ \E a \in AdminActions : \E n \in NumInputs : AdminRead("u1", a, n)
  \/ AdminNormalize
  \/ AdminWrite
  \/ AdminRefresh
  \/ AdminNormalize2

SpecAdmin == InitAdmin /\ [][NextAdmin]_vars

-----------------------------------------------------------------------------
(* The admin's grant and revoke routes of the v2 revision, on users who have
   used none or one of their free trials, with the v2 status route and time
   passing *)

InitAdminV2 ==
  /\ \E k \in {0, 1} :
       users = [u \in Users |-> [NewUser("student") EXCEPT !.trials_used = k]]
  /\ InitRest

NextAdminV2 ==
  \/ Tick
  \/ \E u \in Users : \E plan \in {"monthly", "one_time"} : GrantV2(u, plan)
  \/ \E u \in Users : RevokeV2(u)
  \/ StatusReadV2("s1", "u1")
  \/ StatusNormalizeV2("s1")

SpecAdminV2 == InitAdminV2 /\ [][NextAdminV2]_vars

-----------------------------------------------------------------------------
(* The plan a coupon carries from its creation through the admin's edits to
   the user's row, with the admin's grants and revoke on users *)

(* what POST /api/admin/coupons is called with: a trial coupon or a plan *)
PlanCreateInputs ==
  {<<g, p>> : g \in {NULL, Some(1)}, p \in {"monthly", "one_time"}}

(* what PUT /api/admin/coupons/:id is called with: trialGrant 0, or a
   planGrant, which the handler stores as sent *)
PlanEditInputs ==
  {[NoEdit EXCEPT !.trialGrant = Some(Some(0))],
   [NoEdit EXCEPT !.planGrant = Some("monthly")],
   [NoEdit EXCEPT !.planGrant = Some("lifetime")]}

InitPlan ==
  /\ InitUsers
  /\ InitRest

NextPlan ==
  \/ Tick
  \/ \E i \in PlanCreateInputs : AdminCreateCoupon("c1", Some(2), i[1], i[2], NULL)
  \/ \E f \in PlanEditInputs : AdminEditCoupon("c1", f)
  \/ \E u \in Users : RedeemRead("r1", u, "c1")
  \/ RedeemCheckUsed("r1")
  \/ RedeemIncrement("r1")
  \/ RedeemGrantRead("r1")
  \/ RedeemGrant("r1")
  \/ RedeemInsert("r1")
  \/ \E a \in {"grant_monthly", "grant_one_time", "revoke_all"} : AdminRead("u1", a, NULL)
  \/ AdminNormalize
  \/ AdminWrite
  \/ AdminRefresh
  \/ AdminNormalize2

SpecPlan == InitPlan /\ [][NextPlan]_vars

-----------------------------------------------------------------------------
(* Redemptions of a coupon while the admin toggles it or deletes it.  The
   coupon is one POST /api/admin/coupons created without maxUses, so that it
   is never exhausted and only the admin makes it inactive. *)

InitWithdraw ==
  /\ InitUsers
  /\ \E g \in {NULL, Some(1)} :
       coupons = [c \in Coupons |-> NewCoupon(NULL, g, "one_time", NULL)]
  /\ analyses = [u \in Users |-> 0]
  /\ redemptions = [p \in Coupons \X Users |-> 0]
  /\ payments = [p \in PayIds |-> NoPayment]
  /\ now = 0
  /\ ticks = 0
  /\ an = [r \in AnReqs |-> IdleAn]
  /\ ad = IdleAd
  /\ rd = [r \in RdReqs |-> IdleRd]
  /\ tg = IdleTg
  /\ vf = [v \in VfReqs |-> IdleVf]
  /\ sb = [s \in SbReqs |-> IdleSb]
  /\ st = [s \in StReqs |-> IdleSt]

NextWithdraw ==
  \/ ToggleRead("c1")
  \/ ToggleWrite
  \/ AdminDeleteCoupon("c1")
  \/ \E u \in Users : RedeemRead("r1", u, "c1")
  \/ RedeemCheckUsed("r1")
  \/ RedeemIncrement("r1")
  \/ RedeemGrantRead("r1")
  \/ RedeemGrant("r1")
  \/ RedeemInsert("r1")

SpecWithdraw == InitWithdraw /\ [][NextWithdraw]_vars

-----------------------------------------------------------------------------
(* The status and login views and the analyses of users with every stored
   trials_total, none or one of them used *)

NextView ==
  \/ \E u \in Users : StatusRead("s1", u)
  \/ \E u \in Users : LoginRead("s2", u)
  \/ LoginTouch("s2")
  \/ \E u \in Users : analyses[u] < MaxAnalyses /\ AnalyzeRead("a1", u)
  \/ AnalyzeGemini("a1")
  \/ AnalyzeCommit("a1")
  \/ AnalyzeLog("a1")

SpecView == InitAdmin /\ [][NextView]_vars

-----------------------------------------------------------------------------
(* Claims *)

(* C1.  No double charge: the consume step of a request whose Analyzer call
   succeeded raises the stored trials_used by exactly 1 when the user the
   request authorized is neither admin nor subscribed, and leaves it as it is
   otherwise. *)
C1_NoDoubleCharge ==
  [][\A r \in AnReqs :
       (an[r].pc \in {"gemini", "commit"} /\ an'[r].pc = "log")
         => users'[an[r].user].trials_used =
              users[an[r].user].trials_used + (IF Metered(an[r].ur) THEN 1 ELSE 0)]_vars

(* C2.  A request whose Analyzer call failed (non-OK answer, empty answer,
   unparsable output) is over and has written no trials_used. *)
C2_FailureConsumesNoTrial ==
  \A r \in AnReqs : an[r].out = "UPSTREAM" => an[r].pc = "idle" /\ an[r].charged = 0

C2_Witness ==
  \E r \in AnReqs :
    /\ an[r].out = "UPSTREAM"
    /\ Metered(users[an[r].user])
    /\ users[an[r].user].trials_used > 0

(* canAnalyze as the specification states it *)
CanAnalyzeStated(u, t) ==
  \/ u.role = "admin"
  \/ u.subscribed /\ (u.sub_expires = NULL \/ Val(u.sub_expires) >= t)
  \/ u.trials_used < u.trials_total

(* C3.  The pre-analysis decision, taken on the row just read, is allow
   exactly when the user is admin, or subscribed and unexpired, or has
   trials_used < trials_total. *)
C3_CanAnalyzeExact ==
  [][\A r \in AnReqs :
       (an[r].pc = "idle" /\ an'[r].pc \in {"idle", "gemini"} /\ an'[r] # an[r])
         => ((an'[r].pc = "gemini") <=> CanAnalyzeStated(users[an'[r].user], now))]_vars

(* C4.  Scenario A for every T: starting from trials_used = 0 and
   trials_total = T, once T analyses are logged trials_used is T and no
   further request passes the pre-check. *)
C4_ScenarioA ==
  analyses["u1"] = users["u1"].trials_total
    => /\ users["u1"].trials_used = users["u1"].trials_total
       /\ an["a1"].pc = "idle"

(* C5.  Coupon single-use: no (coupon, user) pair ever has more than one
   row in coupon_redemptions, however the redemption requests interleave. *)
C5_SingleRedemptionRow ==
  \A c \in Coupons : \A u \in Users : redemptions[<<c, u>>] <= 1

(* two requests of the same user for the same coupon have both gone through
   the commit phase *)
C5_Witness ==
  /\ rd["r1"].out = "success" /\ rd["r2"].out = "success"
  /\ rd["r1"].user = rd["r2"].user
  /\ rd["r1"].coupon = rd["r2"].coupon
  /\ redemptions[<<rd["r1"].coupon, rd["r1"].user>>] = 1

(* C6.  Scenario E: of the redemptions of a coupon with max_uses = 1 by two
   different users, at most one succeeds (row inserted); never both. *)
C6_ScenarioE ==
  \A c \in Coupons :
    coupons[c].max_uses = Some(1)
      => Cardinality({u \in Users : redemptions[<<c, u>>] > 0}) <= 1

(* a redemption attempt reads a coupon whose uses has reached max_uses *)
ReadsExhausted(r, c) ==
  /\ rd[r].pc = "idle" /\ rd'[r] # rd[r] /\ rd'[r].coupon = c
  /\ coupons[c].exists /\ IsSet(coupons[c].max_uses)
  /\ coupons[c].uses = Val(coupons[c].max_uses)

(* C7 as stated.  Once uses equals max_uses, a redemption attempt fails with
   CouponExhausted, and the coupon's active flag is false. *)
C7_Exhaustion ==
  [][\A r \in RdReqs : \A c \in Coupons :
       ReadsExhausted(r, c)
         => rd'[r].out = "CouponExhausted" /\ ~coupons[c].active]_vars

(* C7 as amended.  Once uses equals max_uses, every redemption attempt fails
   and ends there: with CouponInactive when the active flag is false and
   with CouponExhausted when it is true; and the redemption that writes the
   last use (uses reaching the max_uses it read) writes active = false in the
   same update. *)
C7_ExhaustionAmended ==
  [][\A r \in RdReqs : \A c \in Coupons :
       /\ ReadsExhausted(r, c)
            => /\ rd'[r].pc = "idle"
               /\ rd'[r].out = IF coupons[c].active THEN "CouponExhausted" ELSE "CouponInactive"
       /\ (rd[r].pc = "incr" /\ rd'[r].pc # "incr" /\ rd[r].coupon = c
              /\ IsSet(rd[r].cp.max_uses)
              /\ coupons'[c].uses >= Val(rd[r].cp.max_uses))
            => ~coupons'[c].active]_vars

(* a coupon exhausted by a redemption has turned a later attempt away *)
C7_Witness ==
  \E r \in RdReqs : \E c \in Coupons : \E u \in Users :
    /\ rd[r].out = "CouponInactive" /\ rd[r].coupon = c
    /\ redemptions[<<c, u>>] > 0
    /\ ~coupons[c].active
    /\ coupons[c].uses = Val(coupons[c].max_uses)

(* C8.  Scenario B: the redemption by U of a coupon with trial_grant = 2 and
   max_uses = 1 raises U's trials_total by 2, leaves the coupon inactive with
   a redemption row for (coupon, U); an attempt of U after that fails with
   AlreadyRedeemed. *)
C8_ScenarioB ==
  [][\A r \in RdReqs : \A c \in Coupons :
       (rd[r].coupon = c /\ coupons[c].max_uses = Some(1) /\ coupons[c].trial_grant = 2)
         => /\ (rd[r].pc = "grant" /\ rd'[r].pc = "insert")
                 => users'[rd[r].user].trials_total = users[rd[r].user].trials_total + 2
            /\ (rd[r].pc = "insert" /\ rd'[r].pc = "idle")
                 => ~coupons'[c].active /\ redemptions'[<<c, rd[r].user>>] = 1
            /\ (rd[r].pc = "idle" /\ rd'[r] # rd[r] /\ redemptions[<<c, rd'[r].user>>] > 0)
                 => rd'[r].out = "AlreadyRedeemed"]_vars

(* C9.  The status of a payment is a one-shot state machine: it changes only
   from pending, and only to verified or rejected; no verify or reject call
   changes the status of a verified or rejected payment. *)
C9_OneShotStatus ==
  [][\A p \in PayIds :
       (payments[p].exists /\ payments'[p].status # payments[p].status)
         => /\ payments[p].status = "pending"
            /\ payments'[p].status \in {"verified", "rejected"}]_vars

(* C10.  A verify call that finds the payment verified fails with
   AlreadyVerified and ends, and leaves the payment rows and the users'
   entitlement fields as they are. *)
C10_VerifyOnVerified ==
  [][\A v \in VfReqs :
       (vf[v].pc = "idle" /\ vf'[v] # vf[v] /\ payments[vf'[v].pay].exists
          /\ payments[vf'[v].pay].status = "verified")
         => /\ vf'[v].pc = "idle" /\ vf'[v].out = "AlreadyVerified"
            /\ payments' = payments
            /\ users' = users]_vars

(* a verify call has been refused on a payment whose grant has been applied *)
C10_Witness ==
  \E v \in VfReqs :
    /\ vf[v].out = "AlreadyVerified"
    /\ payments[vf[v].pay].status = "verified"
    /\ \/ users[payments[vf[v].pay].user].subscribed
       \/ users[payments[vf[v].pay].user].trials_total > FREE_TRIALS

(* C11.  A reject call never changes a user row: whatever the status of the
   payment (verified included), the step that marks it rejected leaves every
   user's trials_total, trials_used, subscribed, sub_plan and sub_expires as
   they are. *)
C11_RejectLeavesUsers ==
  [][\A p \in PayIds :
       (payments[p].exists /\ payments[p].status # "rejected"
          /\ payments'[p].status = "rejected")
         => users' = users]_vars

(* a verified payment whose grant has been applied has been rejected, and
   the user still holds the grant *)
C11_Witness ==
  \E p \in PayIds :
    /\ payments[p].exists /\ payments[p].status = "rejected"
    /\ payments[p].plan = "10" /\ IsSet(payments[p].trials_granted)
    /\ users[payments[p].user].trials_total > FREE_TRIALS

(* C12.  Scenario C: the verification of a pending payment with plan "99"
   goes on to the grant, records trials_granted = null on the payment, and
   sets the user to subscribed, sub_plan monthly, sub_expires thirty days
   after the time of the call. *)
C12_ScenarioC ==
  [][\A v \in VfReqs :
       /\ (vf[v].pc = "idle" /\ vf'[v] # vf[v] /\ payments[vf'[v].pay].exists
             /\ payments[vf'[v].pay].status = "pending" /\ payments[vf'[v].pay].plan = "99")
            => vf'[v].pc = "mark"
       /\ (vf[v].pc = "mark" /\ vf'[v].pc # "mark" /\ vf[v].plan = "99")
            => /\ vf'[v].pc = "subscribe"
               /\ payments'[vf[v].pay].status = "verified"
               /\ payments'[vf[v].pay].trials_granted = NULL
       /\ (vf[v].pc = "subscribe" /\ vf'[v].pc = "idle")
            => /\ vf'[v].out = "success"
               /\ users'[vf[v].user].subscribed
               /\ users'[vf[v].user].sub_plan = "monthly"
               /\ users'[vf[v].user].sub_expires = Some(now + DAYS_30)
               /\ payments'[vf[v].pay].trials_granted = NULL]_vars

(* a plan-99 payment has been verified some days after its submission *)
C12_Witness ==
  \E v \in VfReqs :
    /\ vf[v].out = "success" /\ payments[vf[v].pay].plan = "99"
    /\ payments[vf[v].pay].status = "verified"
    /\ users["u1"].subscribed /\ users["u1"].sub_plan = "monthly"
    /\ users["u1"].sub_expires = Some(now + DAYS_30) /\ now > 0

(* C13.  Scenario D generalised: the verification of a pending payment with
   plan "10" and trialsToGrant = n, for a user whose trials_total is t, sets
   trials_total to t + max(n, 1) and records trials_granted = max(n, 1), for
   every t >= 0 and every n. *)
C13_ScenarioD ==
  [][\A v \in VfReqs :
       /\ \A n \in VerifyInputs \ {NULL} : TrialsToGrant(n) = Max(Val(n), 1)
       /\ (vf[v].pc = "mark" /\ vf'[v].pc # "mark" /\ vf[v].plan = "10")
            => payments'[vf[v].pay].trials_granted = Some(vf[v].nt)
       /\ (vf[v].pc = "grant" /\ vf'[v].pc = "idle")
            => users'[vf[v].user].trials_total = users[vf[v].user].trials_total + vf[v].nt]_vars

(* C14.  normalize clears the subscription exactly when the user is
   subscribed with sub_plan monthly, sub_expires is set and now is past it:
   then subscribed = false, sub_plan = null, sub_expires = null are set in
   the store and in the returned snapshot, which reports subscribed = false;
   in every other case the stored row and the returned snapshot are the row
   as read. *)
C14_NormalizeExact ==
  [][\A s \in StReqs :
       /\ (st[s].pc = "idle" /\ st'[s] # st[s])
            => LET row == users[st'[s].user]
               IN  /\ users' = users
                   /\ st'[s].ur = row
                   /\ (st'[s].pc = "normalize")
                        <=> /\ row.subscribed /\ row.sub_plan = "monthly"
                            /\ row.sub_expires # NULL /\ now > Val(row.sub_expires)
                   /\ st'[s].pc \in {"normalize", "idle"}
       /\ (st[s].pc = "normalize" /\ st'[s].pc # "normalize")
            => LET u == st[s].user
               IN  /\ st'[s].pc = "idle"
                   /\ users'[u] = [users[u] EXCEPT !.subscribed = FALSE, !.sub_plan = "null",
                                                   !.sub_expires = NULL]
                   /\ st'[s].ur = [st[s].ur EXCEPT !.subscribed = FALSE, !.sub_plan = "null",
                                                   !.sub_expires = NULL]
                   /\ ~st'[s].ur.subscribed]_vars

(* a status read has cleared an expired monthly subscription, and another
   has returned a subscription at the very day of its expiry untouched *)
C14_Witness ==
  /\ st["s1"].pc = "idle" /\ st["s1"].user = "u1"
  /\ st["s1"].ur.subscribed /\ st["s1"].ur.sub_expires = Some(now)
  /\ st["s2"].pc = "idle" /\ st["s2"].user = "u1" /\ ~st["s2"].ur.subscribed
  /\ ~users["u1"].subscribed /\ users["u1"].sub_expires = NULL /\ now > 0

(* C15.  normalize is idempotent: when a run of normalize has ended, a second
   run at once leaves the stored row as the first left it and returns the
   snapshot the first returned. *)
C15_NormalizeIdempotent ==
  [][\A s \in StReqs :
       (st[s].pc \in {"idle", "normalize"} /\ st'[s] # st[s] /\ st'[s].pc = "idle")
         => LET u == st'[s].user
            IN  /\ RefreshResult(users'[u], now) = users'[u]
                /\ RefreshResult(users'[u], now) = st'[s].ur]_vars

(* a run of normalize has ended that cleared the monthly subscription an
   earlier status read had still returned *)
C15_Witness ==
  \E s, e \in StReqs :
    /\ st[s].pc = "idle" /\ st[s].user = "u1" /\ st[s].ur = users["u1"]
    /\ ~users["u1"].subscribed /\ users["u1"].sub_expires = NULL
    /\ st[e].pc = "idle" /\ st[e].user = "u1"
    /\ st[e].ur.subscribed /\ st[e].ur.sub_plan = "monthly"
    /\ now > Val(st[e].ur.sub_expires)

(* C16.  upi_ref is unique across the payments; a submission whose upi_ref
   is on a payment when the submission ends fails with DuplicateUpiRef and
   creates no row, however concurrent submissions of the reference
   interleave; a successful submission creates exactly one payment, with
   status pending. *)
C16_UniqueUpiRef ==
  [][/\ \A p, q \in PayIds :
          (payments'[p].exists /\ payments'[q].exists
             /\ payments'[p].upi_ref = payments'[q].upi_ref) => p = q
     /\ \A s \in SbReqs :
          (sb'[s] # sb[s] /\ sb'[s].pc = "idle")
            => IF \E p \in PayIds : payments[p].exists /\ payments[p].upi_ref = sb'[s].upi_ref
                 THEN sb'[s].out = "DuplicateReference" /\ payments' = payments
                 ELSE /\ sb'[s].out = "success"
                      /\ \E p \in PayIds :
                           /\ ~payments[p].exists
                           /\ payments'[p].exists /\ payments'[p].status = "pending"
                           /\ payments'[p].upi_ref = sb'[s].upi_ref
                           /\ \A q \in PayIds \ {p} : payments'[q] = payments[q]]_vars

(* C17.  A user is never granted the same coupon's effect twice: for every
   (coupon, user) pair the grant is applied at most once, however the
   redemption requests interleave. *)
C17_GrantOnce ==
  \A c \in Coupons : \A u \in Users :
    Cardinality({r \in RdReqs : rd[r].coupon = c /\ rd[r].user = u /\ rd[r].granted > 0}) <= 1

(* C18.  Quota invariant: the trials_used of a non-admin, non-subscribed user
   never exceeds trials_total, however analyze requests and admin actions
   interleave. *)
C18_QuotaInvariant ==
  \A u \in Users : Metered(users[u]) => users[u].trials_used <= users[u].trials_total

(* a redemption attempt reads coupon c and ends or goes on to the look-up of
   the redemption row *)
ReadsCoupon(r, c) ==
  rd[r].pc = "idle" /\ rd'[r] # rd[r] /\ rd'[r].coupon = c /\ coupons[c].exists

(* C19 as stated.  A redemption attempt passes the validity checks exactly
   when the coupon is active, max_uses is null or uses < max_uses, and
   expiry_date is null or now < expiry_date. *)
C19_Redeemable ==
  [][\A r \in RdReqs : \A c \in Coupons :
       ReadsCoupon(r, c)
         => ((rd'[r].pc = "check")
               <=> /\ coupons[c].active
                   /\ (coupons[c].max_uses = NULL \/ coupons[c].uses < Val(coupons[c].max_uses))
                   /\ (coupons[c].expiry_date = NULL \/ now < Val(coupons[c].expiry_date)))]_vars

(* C19 as amended.  A redemption attempt passes the validity checks exactly
   when the coupon is active, max_uses is null or uses < max_uses, and
   expiry_date is null or now <= expiry_date: the coupon is still good at
   the instant of its expiry. *)
C19_RedeemableAmended ==
  [][\A r \in RdReqs : \A c \in Coupons :
       ReadsCoupon(r, c)
         => ((rd'[r].pc = "check")
               <=> /\ coupons[c].active
                   /\ (coupons[c].max_uses = NULL \/ coupons[c].uses < Val(coupons[c].max_uses))
                   /\ (coupons[c].expiry_date = NULL \/ now <= Val(coupons[c].expiry_date)))]_vars

(* an attempt has been turned away for the expiry date alone, after another
   user redeemed the coupon in time *)
C19_Witness ==
  /\ rd["r1"].out = "CouponExpired" /\ rd["r1"].coupon = "c1"
  /\ coupons["c1"].active /\ coupons["c1"].uses = 1
  /\ coupons["c1"].max_uses = Some(2)
  /\ now > Val(coupons["c1"].expiry_date)

(* C20.  Every coupon with max_uses set has 0 <= uses <= max_uses, under any
   sequence of redemptions and of the admin's create, edit and toggle. *)
C20_UsesWithinMax ==
  \A c \in Coupons :
    (coupons[c].exists /\ IsSet(coupons[c].max_uses))
      => 0 <= coupons[c].uses /\ coupons[c].uses <= Val(coupons[c].max_uses)

(* C21.  Trial consumption tolerates interleaving: when the analyze requests
   of a non-admin, non-subscribed user have all ended, trials_used is higher
   than at the start (0) by the number of requests whose Analyzer call
   succeeded, one row of analyses each, whether or not the requests
   overlapped. *)
C21_NoLostConsumption ==
  (\A r \in AnReqs : an[r].pc = "idle")
    => users["u1"].trials_used = analyses["u1"]

(* C22.  Ordering: a request goes on to the Analyzer only from the
   pre-check, for a user of the store whose row, as refreshUser returned it,
   the pre-check allows; the trial-consumption write is made only by a request
   whose Analyzer call has succeeded; no request reaches the Analyzer without
   that authorization. *)
C22_AnalyzerAfterAuthorization ==
  [][\A r \in AnReqs :
       /\ (an[r].pc # "gemini" /\ an'[r].pc = "gemini")
            => /\ an[r].pc \in {"idle", "normalize"}
               /\ an'[r].user \in Users
               /\ PreCheckAllows(IF an[r].pc = "idle" THEN users[an'[r].user]
                                 ELSE ClearSub(an[r].ur))
       /\ (an[r].pc # "commit" /\ an'[r].pc = "commit")
            => an[r].pc = "gemini" /\ an'[r].out # "UPSTREAM"
       /\ (\E u \in Users : users'[u].trials_used # users[u].trials_used)
            => \E q \in AnReqs : an[q].pc = "commit" /\ an'[q].pc = "log"]_vars

(* the steps a request takes up to and including a failed Analyzer call: the
   select of refreshUser, its clearing update, and the call that fails *)
FailedRequestStep(r) ==
  \/ an[r].pc = "idle" /\ an'[r] # an[r]
  \/ an[r].pc = "normalize" /\ an'[r] # an[r]
  \/ an[r].pc = "gemini" /\ an'[r].out = "UPSTREAM"

(* C23 as stated.  An analyze request whose Analyzer call fails is a full
   no-op: none of its steps changes the stored trials_used, trials_total,
   subscribed, sub_plan or sub_expires of a user, or appends a row to
   analyses. *)
C23_FailedRequestNoOp ==
  [][\A r \in AnReqs :
       FailedRequestStep(r) => users' = users /\ analyses' = analyses]_vars

(* C23 as amended.  An analyze request whose Analyzer call fails ends there,
   appends no row to analyses and leaves the stored trials_used and
   trials_total as they are; its only write is the one of the normalization in
   the pre-check, made when the row read holds a monthly subscription whose
   sub_expires is past, which sets subscribed = false, sub_plan = null and
   sub_expires = null on the user and nothing else. *)
C23_FailedRequestAmended ==
  [][\A r \in AnReqs :
       /\ FailedRequestStep(r) => analyses' = analyses
       /\ (FailedRequestStep(r) /\ an[r].pc # "normalize") => users' = users
       /\ (an[r].pc = "gemini" /\ an'[r].out = "UPSTREAM") => an'[r].pc = "idle"
       /\ (an[r].pc = "normalize" /\ an'[r] # an[r])
            => /\ Expired(an[r].ur, now)
               /\ users' = [users EXCEPT ![an[r].user] =
                              [@ EXCEPT !.subscribed = FALSE, !.sub_plan = "null",
                                        !.sub_expires = NULL]]]_vars

(* every request so far has failed, and one of them has cleared the lapsed
   subscription of u1, who had used a trial before *)
C23_Witness ==
  /\ \A r \in AnReqs : an[r].pc = "idle"
  /\ \E r \in AnReqs : an[r].out = "UPSTREAM" /\ an[r].user = "u1"
  /\ analyses["u1"] = 0
  /\ ~users["u1"].subscribed /\ users["u1"].sub_expires = NULL
  /\ users["u1"].trials_used = 1

(* C24.  The commit phase of a redemption is all-or-nothing: between
   requests, the uses of a coupon count its redemption rows, and a request
   that went through the commit phase has applied its grant and left the
   redemption row of its coupon and user; no state has the uses incremented
   without the grant, or the grant without the row and the increment. *)
C24_CommitAllOrNothing ==
  rd["r1"].pc = "idle"
    => /\ \A c \in Coupons :
            coupons[c].uses = Cardinality({u \in Users : redemptions[<<c, u>>] > 0})
       /\ rd["r1"].out = "success"
            => /\ rd["r1"].granted = 1
               /\ redemptions[<<rd["r1"].coupon, rd["r1"].user>>] = 1

(* C25.  The uses of a coupon equal the number of its rows in
   coupon_redemptions, that is of its successful redemptions, whenever no
   redemption is under way, however the requests of different users
   interleaved. *)
C25_UsesCountRedemptions ==
  (\A r \in RdReqs : rd[r].pc = "idle")
    => \A c \in Coupons :
         coupons[c].uses = Cardinality({u \in Users : redemptions[<<c, u>>] = 1})

(* C26.  Verification is idempotent per payment: the grant of a payment is
   applied once; no verify call applies the grant of a payment for which
   another call has applied it and answered success, however the calls
   interleave. *)
C26_VerifyGrantsOnce ==
  [][\A v \in VfReqs :
       (vf[v].pc \in {"subscribe", "grant"} /\ vf'[v].pc = "idle")
         => ~\E w \in VfReqs \ {v} :
               vf[w].pc = "idle" /\ vf[w].out = "success" /\ vf[w].pay = vf[v].pay]_vars

(* C27.  No lost trial grants across payments: once two plan-10 payments of
   u1 have been verified, concurrently or not, u1's trials_total is its
   initial value (the one u2 still has) plus the grants recorded on the two
   payments, max(n1,1) + max(n2,1). *)
C27_NoLostGrant ==
  (/\ \A v \in VfReqs : vf[v].pc = "idle"
   /\ payments[1].status = "verified" /\ payments[2].status = "verified")
    => users["u1"].trials_total =
         users["u2"].trials_total + Val(payments[1].trials_granted)
                                  + Val(payments[2].trials_granted)

(* C28.  Verification survives a store failure: whenever no verify call is
   under way, a payment with status verified has had its grant applied to its
   user (the monthly subscription for plan 99, a trials_total above the
   initial one, which u2 still has, for plan 10); a payment whose grant write
   failed is therefore not left verified, and a retry can apply the grant. *)
C28_VerifiedImpliesGranted ==
  (\A v \in VfReqs : vf[v].pc = "idle")
    => \A p \in PayIds :
         (payments[p].exists /\ payments[p].status = "verified")
           => IF payments[p].plan = "99"
                THEN /\ users[payments[p].user].subscribed
                     /\ users[payments[p].user].sub_plan = "monthly"
                ELSE users[payments[p].user].trials_total > users["u2"].trials_total

(* C29.  On every read path that normalizes a user, the snapshot the path
   holds after the clearing update, which it returns or decides on, agrees
   with the row that update left in the store in subscribed, sub_plan and
   sub_expires (in subscribed for the pre-analysis check, which keeps no
   more). *)
C29_SnapshotAgrees ==
  [][/\ \A s \in StReqs :
          (st[s].pc \in {"normalize", "login_normalize", "detail_normalize",
                         "normalize_v2", "login_normalize_v2"}
             /\ st'[s].pc # st[s].pc)
            => /\ st'[s].ur.subscribed = users'[st[s].user].subscribed
               /\ st'[s].ur.sub_plan = users'[st[s].user].sub_plan
               /\ st'[s].ur.sub_expires = users'[st[s].user].sub_expires
     /\ \A r \in AnReqs :
          (an[r].pc = "normalize" /\ an'[r].pc = "gemini")
            => an'[r].ur.subscribed = users'[an[r].user].subscribed]_vars

(* C30.  Normalization runs before the user is used on each path: the
   snapshot a status fetch, a login and an admin detail view go on to report,
   once read and checked, holds no monthly subscription whose sub_expires is
   past; the pre-analysis check decides on none; and a redemption that passed
   the coupon checks goes on to the user with no such subscription left in
   the user's row. *)
C30_NormalizedBeforeUse ==
  [][/\ \A s \in StReqs :
          (st'[s] # st[s] /\ st[s].pc # "history" /\ st'[s].pc \in {"idle", "history"})
            => ~Expired(st'[s].ur, now)
     /\ \A r \in AnReqs :
          (an[r].pc = "idle" /\ an'[r] # an[r] /\ an'[r].pc # "normalize"
             /\ an'[r].user \in Users)
            => ~Expired(users[an'[r].user], now)
     /\ \A r \in RdReqs :
          (rd[r].pc = "idle" /\ rd'[r].pc = "check")
            => ~Expired(users'[rd'[r].user], now)]_vars

(* C31.  Every stored user with subscribed = false has sub_plan = null and
   sub_expires = null, in every state reached through login, analyze, coupon
   redemption, payment verification and the admin's actions on users. *)
C31_UnsubscribedHasNoPlan ==
  \A u \in Users :
    ~users[u].subscribed => users[u].sub_plan = "null" /\ users[u].sub_expires = NULL

(* a login has cleared the monthly subscription the verified payment had
   given to u1, some days after the grant *)
C31_Witness ==
  /\ st["s1"].pc = "idle" /\ st["s1"].user = "u1" /\ st["s1"].ur = users["u1"]
  /\ ~users["u1"].subscribed
  /\ payments[1].plan = "99" /\ payments[1].status = "verified"
  /\ now > DAYS_30
  /\ users["u1"].trials_used > 0

(* C32.  set_trials with the integer n writes trials_total = max(n, 0) and
   trials_used = 0 on the user's row, for every integer n, 0 and the negative
   ones included. *)
C32_SetTrialsExact ==
  [][(ad.pc = "write" /\ ad'.pc = "refresh" /\ ad.action = "set_trials" /\ IsSet(ad.n))
       => /\ users'[ad.user].trials_total = Max(Val(ad.n), 0)
          /\ users'[ad.user].trials_used = 0]_vars

(* C33.  add_trials with the integer n raises the stored trials_total by
   exactly max(n, 1), for every stored trials_total >= 0 and every n. *)
C33_AddTrialsExact ==
  [][(ad.pc = "write" /\ ad'.pc = "refresh" /\ ad.action = "add_trials" /\ IsSet(ad.n))
       => users'[ad.user].trials_total = users[ad.user].trials_total + Max(Val(ad.n), 1)]_vars

(* C34.  grant_monthly writes subscribed = true, sub_plan = monthly and
   sub_expires = now + days, where days is 30 whenever the supplied value is
   missing or less than 1 (0 and the negative values included);
   grant_one_time writes subscribed = true, sub_plan = one_time and
   sub_expires = null. *)
C34_GrantUnlimitedExact ==
  [][(ad.pc = "write" /\ ad'.pc = "refresh")
       => /\ ad.action = "grant_monthly" =>
               /\ users'[ad.user].subscribed
               /\ users'[ad.user].sub_plan = "monthly"
               /\ users'[ad.user].sub_expires =
                    Some(now + (IF ad.n = NULL \/ Val(ad.n) < 1 THEN DAYS_30 ELSE Val(ad.n)))
          /\ ad.action = "grant_one_time" =>
               /\ users'[ad.user].subscribed
               /\ users'[ad.user].sub_plan = "one_time"
               /\ users'[ad.user].sub_expires = NULL]_vars

(* the row of the free tier that a full reset leaves *)
FreeTier(row) ==
  /\ ~row.subscribed /\ row.sub_plan = "null" /\ row.sub_expires = NULL
  /\ row.trials_total = FREE_TRIALS /\ row.trials_used = 0

(* C35.  A revoke is a full reset to the free tier: from any user state the
   row it writes has subscribed = false, sub_plan = null, sub_expires = null,
   trials_total = FREE_TRIALS and trials_used = 0; this for the revoke_all
   action of the admin update and for the revoke route. *)
C35_RevokeIsFullReset ==
  [][/\ (ad.pc = "write" /\ ad'.pc = "refresh" /\ ad.action = "revoke_all")
          => FreeTier(users'[ad.user])
     /\ \A u \in Users : RevokeV2(u) => FreeTier(users'[u])]_vars

(* a step that writes a grant on a user's row: the admin's grant_monthly,
   grant_one_time or add_trials, the grant of a verified payment, the grant
   of a redeemed coupon *)
GrantStep ==
  \/ AdminWrite /\ ad.action \in {"grant_monthly", "grant_one_time", "add_trials"}
  \/ \E v \in VfReqs : VerifySubscribe(v) \/ VerifyGrant(v)
  \/ \E r \in RdReqs : RedeemGrant(r)

(* row b entitles to no less than row a *)
NotLowered(a, b) ==
  /\ (a.subscribed /\ a.sub_expires = NULL) => (b.subscribed /\ b.sub_expires = NULL)
  /\ (IsSet(a.sub_expires) /\ IsSet(b.sub_expires)) => Val(b.sub_expires) >= Val(a.sub_expires)
  /\ b.trials_total >= a.trials_total

(* C36.  A grant never lowers a user's entitlement: after the grant a user
   who had a non-expiring subscription still has one, sub_expires is not
   earlier than before, and trials_total is not smaller than before. *)
C36_GrantNeverLowers ==
  [][GrantStep => \A u \in Users : NotLowered(users[u], users'[u])]_vars

(* C37.  In every state every user's sub_plan is one of null, one_time,
   monthly, coupon, whatever coupons are created, edited and redeemed and
   whatever the admin does on users. *)
C37_SubPlanInDomain ==
  \A u \in Users : users[u].sub_plan \in {"null", "one_time", "monthly", "coupon"}

(* the update of a normalization, on whichever path *)
NormalizeStep ==
  \/ \E s \in StReqs : StatusNormalize(s) \/ LoginNormalize(s) \/ DetailNormalize(s)
  \/ \E r \in AnReqs : AnalyzeNormalize(r)
  \/ AdminNormalize
  \/ AdminNormalize2

(* a subscription that has not lapsed at time t *)
Live(row, t) == row.subscribed /\ ~Expired(row, t)

(* C38.  Normalization never clears a live subscription: when a grant has
   written a subscription that is not expired between the read of an expired
   row and the update, the stored row still has that subscription after the
   update. *)
C38_NormalizeKeepsLive ==
  [][NormalizeStep => \A u \in Users : Live(users[u], now) => users'[u] = users[u]]_vars

(* a coupon the admin has withdrawn: deleted, or toggled inactive *)
Withdrawn(row) == ~row.exists \/ ~row.active

(* C39.  A redemption never commits against a withdrawn coupon: when the
   coupon has been toggled inactive or deleted after the request validated
   it, the writes of the request change neither the coupon nor the user's
   row nor the redemption rows. *)
C39_NoCommitOnWithdrawn ==
  [][\A r \in RdReqs :
       ((RedeemIncrement(r) \/ RedeemGrant(r) \/ RedeemInsert(r))
          /\ Withdrawn(coupons[rd[r].coupon]))
         => UNCHANGED <<users, coupons, redemptions>>]_vars

(* the rows the views and the pre-check are given: the stored ones, and the
   ones the status and login requests have read *)
ViewedRows ==
  {users[u] : u \in Users} \cup {st[s].ur : s \in {x \in StReqs : st[x].user # "none"}}

(* C40.  The status view and the pre-analysis check agree: for every row of
   a non-admin, non-subscribed user the response reports trials_left =
   max(0, trials_total - trials_used) with the effective trials_total of the
   pre-check, and trials_left > 0 exactly when the pre-check allows the
   analysis. *)
C40_ViewAgreesWithPreCheck ==
  \A row \in ViewedRows :
    Metered(row) =>
      /\ FormatUser(row).trials_total = TotalOrDefault(row.trials_total)
      /\ FormatUser(row).trials_left
           = Max(0, TotalOrDefault(row.trials_total) - row.trials_used)
      /\ (FormatUser(row).trials_left > 0) <=> PreCheckAllows(row)

(* a status response for u1, whose stored trials_total is 0, while an analysis
   of u1 has passed the pre-check *)
C40_Witness ==
  /\ st["s1"].pc = "idle" /\ st["s1"].user = "u1" /\ st["s1"].ur = users["u1"]
  /\ users["u1"].trials_total = 0
  /\ an["a1"].pc = "gemini" /\ an["a1"].user = "u1"

====
